---- MODULE Spec2Model ----
(***************************************************************************)
(* StoryWeaver: the story-graph editor (src/unnamed/part_000) and the      *)
(* snapshot autosave / undo-redo engine (src/autosave.js).                 *)
(*                                                                         *)
(* Ids are positive integers; Null (0) stands for the falsy ids of the     *)
(* source (null, undefined, the empty string of the target <select>).      *)
(***************************************************************************)
EXTENDS Integers, Sequences, FiniteSets, TLC

\* ------------------------------------------------------------------ bounds

\* size of the pool makeId('scene') draws from
MaxScenes == 3
\* size of the pool makeId('choice') draws from
MaxChoiceIds == 3
\* editor operations explored from the initial state
MaxSteps == 5

Null == 0

SceneIds == 1..MaxScenes
ChoiceIds == 1..MaxChoiceIds

\* ------------------------------------------------------------------- state

VARIABLES
    data,             \* part_000: let data = { scenes, startSceneId, ... }
    selectedSceneId,  \* part_000: let selectedSceneId
    storedData,       \* localStorage['storyEditor_data']: <<>> or <<data>>
    imported,         \* history: an import has replaced the graph
    reading,          \* the FileReader loads under way, each with the scene
                      \* that was selected when it was started (history)
    steps,            \* number of operations performed
    last,             \* the last operation: its name, argument and message
    pc,               \* findAllPaths: "idle", "running" or "done"
    frames,           \* findAllPaths: the call stack of explorePath
    paths,            \* findAllPaths: const paths = []
    analytics,        \* generateAnalytics: the figures it has computed
    story,            \* the live story readStory() finds (window.story)
    snapshots,        \* localStorage['storyForge_snapshots']
    lastSaved,        \* localStorage['storyForge_lastSaved']
    lastHash,         \* autosave.js: let lastHash
    undoStack,        \* autosave.js: let undoStack
    redoStack,        \* autosave.js: let redoStack
    autosaveTimer,    \* autosave.js: let autosaveTimer
    intervals,        \* the interval timers that are running
    timeouts,         \* pending setTimeout(autosaveTick, 200) calls
    now,              \* the clock nowISO() reads
    listing,          \* the history list: the rows renderHistoryModal last
                      \* drew, and whether #sf-history-modal has been hidden
    sinceUndo,        \* history: "none", "undone" (an undo was made),
                      \* "mutated" (and the story was edited after it)
    storage,          \* localStorage: what the snapshot key holds and which
                      \* writes it accepts
    host              \* the page writeStory runs in: window.setStory, the
                      \* places a story is kept, the update signals fired

editorVars == <<data, selectedSceneId, storedData, imported, reading>>
pathVars == <<pc, frames, paths, analytics>>
autosaveVars == <<story, snapshots, lastSaved, lastHash, undoStack, redoStack,
                  autosaveTimer, intervals, timeouts, now, listing, sinceUndo,
                  storage, host>>
vars == <<data, selectedSceneId, storedData, imported, reading, steps, last,
          pc, frames, paths, analytics, story, snapshots, lastSaved, lastHash,
          undoStack, redoStack, autosaveTimer, intervals, timeouts, now,
          listing, sinceUndo, storage, host>>

\* -------------------------------------------------------- graph data model

\* generateAnalytics has not run
NoStats == [shown |-> "none"]

\* data.scenes is an object keyed by scene id; Object.keys / Object.values
\* enumerate it in insertion order, so it is a sequence of scenes here. Of a
\* scene, id is the key it is stored under and ownId its own id property
\* (scene.id): addScene makes them equal, an imported file need not.
EmptyData == [scenes |-> << >>, scenesNull |-> FALSE, startSceneId |-> Null]

Ids(scenes) == {scenes[i].id : i \in 1..Len(scenes)}

\* data.scenes[id] is truthy
HasScene(d, id) == (~d.scenesNull) /\ id \in Ids(d.scenes)

SceneAt(scenes, id) == CHOOSE i \in 1..Len(scenes) : scenes[i].id = id

UsedChoiceIds(scenes) ==
    UNION {{scenes[i].choices[j].id : j \in 1..Len(scenes[i].choices)} :
           i \in 1..Len(scenes)}

AnyId(pool, used) == pool

\* makeId(prefix): a random suffix plus the clock; the results are ids not
\* in use, drawn from the pool
makeId(pool, used) == pool \ used

DefaultTitle == "New Scene"

NewScene(id) ==
    [id |-> id, ownId |-> id, title |-> DefaultTitle, choices |-> << >>,
     image |-> Null]

\* the ids the rendered scene elements carry (data-scene-id = scene.id)
OwnIds(scenes) == {scenes[i].ownId : i \in 1..Len(scenes)}

\* a scene of a story file, stored under its own id
FileScene(id, choices) ==
    [id |-> id, ownId |-> id, title |-> "Scene", choices |-> choices,
     image |-> Null]

NewChoice(id) == [id |-> id, target |-> Null]

\* data.scenes[id] = scene: a new key is appended, an existing key keeps
\* its place
PutScene(scenes, scene) ==
    IF scene.id \in Ids(scenes)
    THEN [scenes EXCEPT ![SceneAt(scenes, scene.id)] = scene]
    ELSE Append(scenes, scene)

\* addScene: first scene becomes the start scene
StartAfterAdd(start, id) == IF start = Null THEN id ELSE start

\* choices.find(c => c.id === choiceId): index of the first match, 0 if none
FindChoice(choices, choiceId) ==
    IF \E j \in 1..Len(choices) : choices[j].id = choiceId
    THEN CHOOSE j \in 1..Len(choices) :
            /\ choices[j].id = choiceId
            /\ \A k \in 1..(j - 1) : choices[k].id # choiceId
    ELSE 0

\* choice.target = targetId || null
SetTarget(choices, choiceId, targetId) ==
    LET j == FindChoice(choices, choiceId) IN
    IF j = 0 THEN choices
    ELSE [choices EXCEPT ![j].target = targetId]

KeepOnly(choices, choiceId) ==
    SelectSeq(choices, LAMBDA c : c.id = choiceId)

\* scene.choices.filter(c => c.id !== choiceId)
FilterChoices(choices, choiceId) ==
    SelectSeq(choices, LAMBDA c : c.id # choiceId)

\* delete data.scenes[sceneId]
RemoveScene(scenes, sceneId) ==
    SelectSeq(scenes, LAMBDA s : s.id # sceneId)

ClearReferencesKeep(scenes, sceneId) == scenes

\* deleteScene: every choice that targeted the scene is unlinked
ClearReferences(scenes, sceneId) ==
    [i \in 1..Len(scenes) |->
        [scenes[i] EXCEPT !.choices =
            [j \in 1..Len(scenes[i].choices) |->
                IF scenes[i].choices[j].target = sceneId
                THEN [scenes[i].choices[j] EXCEPT !.target = Null]
                ELSE scenes[i].choices[j]]]]

ReassignStartKeep(start, sceneId, remaining) == start

\* deleteScene: the start scene moves to the first remaining key, or null
ReassignStart(start, sceneId, remaining) ==
    IF start = sceneId
    THEN (IF Len(remaining) > 0 THEN remaining[1].id ELSE Null)
    ELSE start

\* the whole of deleteScene's effect on data
DeleteSceneData(d, sceneId) ==
    LET remaining == ClearReferences(RemoveScene(d.scenes, sceneId), sceneId) IN
    [d EXCEPT !.scenes = remaining,
              !.startSceneId = ReassignStart(d.startSceneId, sceneId, remaining)]

\* sampleStories.mathAdventure, abridged to three scenes: entry scene_1,
\* every choice linked to a scene of the story, a "go back" edge that closes
\* a cycle, and a terminal scene
SampleStory ==
    [scenes |-> <<
        FileScene(1, << [id |-> 1, target |-> 2], [id |-> 2, target |-> 3] >>),
        FileScene(2, << [id |-> 3, target |-> 1] >>),
        FileScene(3, << >>) >>,
     scenesNull |-> FALSE,
     startSceneId |-> 1]

\* ------------------------------------------------------- import payloads

\* The files offered to importJSON. json is what JSON.parse makes of the
\* text ("invalid": it throws; "null"; "number"; "object"); scenes is the
\* type of the payload's scenes field; graph is the payload's content when
\* scenes is an object.
Payload(json, scenesType, graph) ==
    [json |-> json, scenes |-> scenesType, graph |-> graph]

ImportPayloads == <<
    Payload("invalid", "missing", EmptyData),
    Payload("null", "missing", EmptyData),
    Payload("number", "missing", EmptyData),
    Payload("object", "missing", EmptyData),
    Payload("object", "string", EmptyData),
    Payload("object", "number", EmptyData),
    Payload("object", "null", EmptyData),
    \* {scenes: {}, startSceneId: null}
    Payload("object", "object", EmptyData),
    \* a well-formed two-scene story
    Payload("object", "object",
        [scenes |-> << FileScene(1, << [id |-> 1, target |-> 2] >>),
                       FileScene(2, << >>) >>,
         scenesNull |-> FALSE, startSceneId |-> 1]),
    \* scenes without a startSceneId field
    Payload("object", "object",
        [scenes |-> << FileScene(1, << >>) >>,
         scenesNull |-> FALSE, startSceneId |-> Null]),
    \* a startSceneId and a choice target naming a scene the file lacks
    Payload("object", "object",
        [scenes |-> << FileScene(1, << [id |-> 1, target |-> 3] >>) >>,
         scenesNull |-> FALSE, startSceneId |-> 2]),
    \* a scene stored under key 1 whose own id property is 2
    Payload("object", "object",
        [scenes |-> << [FileScene(1, << [id |-> 1, target |-> Null] >>)
                            EXCEPT !.ownId = 2] >>,
         scenesNull |-> FALSE, startSceneId |-> 1]) >>

\* importedData && typeof importedData.scenes === 'object'
\* (typeof null is 'object')
ImportAccepts(p) ==
    p.json = "object" /\ p.scenes \in {"object", "null"}

\* the value `data = importedData` leaves in data
ImportedData(p) ==
    IF p.scenes = "null"
    THEN [scenes |-> << >>, scenesNull |-> TRUE,
          startSceneId |-> p.graph.startSceneId]
    ELSE p.graph

MsgImported == "Story imported successfully!"
MsgInvalid == "Invalid story file format."
MsgError == "Error reading story file"

\* the record of an operation: its name, argument, message, return value and
\* (for undo, redo and restore) the live story it found
Did(op, arg, msg, ret, prev) ==
    [op |-> op, arg |-> arg, msg |-> msg, ret |-> ret, prev |-> prev]

Done(op, arg, msg) == Did(op, arg, msg, Null, Null)

\* ------------------------------------------------------- editor operations

\* localStorage.setItem('storyEditor_data', JSON.stringify(data))
saveToLocal(d) == << d >>

Step == steps < MaxSteps /\ steps' = steps + 1

\* addScene(x, y)
addScene ==
    /\ Step
    /\ UNCHANGED <<pathVars, autosaveVars, reading>>
    /\ ~data.scenesNull
    /\ \E id \in makeId(SceneIds, Ids(data.scenes) \cup OwnIds(data.scenes)) :
        /\ data' = [data EXCEPT
                !.scenes = PutScene(data.scenes, NewScene(id)),
                !.startSceneId = StartAfterAdd(data.startSceneId, id)]
        /\ selectedSceneId' = id
        /\ last' = Done("addScene", id, "")
    /\ storedData' = saveToLocal(data')
    /\ UNCHANGED imported

\* selectScene(sceneId): a click on a rendered scene, which passes scene.id,
\* or on the empty board
selectScene ==
    /\ Step
    /\ UNCHANGED <<pathVars, autosaveVars, reading>>
    /\ \E sceneId \in OwnIds(data.scenes) \cup {Null} :
        /\ selectedSceneId' = sceneId
        /\ last' = Done("selectScene", sceneId, "")
    /\ UNCHANGED <<data, storedData, imported>>

MsgTypeError == "TypeError"

\* data.scenes[selectedSceneId] is evaluated with data.scenes null
Throws(d, sel) == sel # Null /\ d.scenesNull

\* !selectedSceneId || !data.scenes[selectedSceneId]
SceneMissing(d, sel) == sel = Null \/ ~HasScene(d, sel)

\* a handler that stops at its first line: it returns, or the lookup throws
Returns(op, arg) ==
    /\ last' = Done(op, arg, IF Throws(data, selectedSceneId)
                             THEN MsgTypeError ELSE "")
    /\ UNCHANGED <<data, storedData>>

\* what the author types into the title field
TitleInputs == {"Edited"}

\* updateSceneTitle(e)
updateSceneTitle ==
    /\ Step
    /\ UNCHANGED <<pathVars, autosaveVars, reading>>
    /\ \E value \in TitleInputs :
        IF SceneMissing(data, selectedSceneId)
        THEN Returns("updateSceneTitle", value)
        ELSE /\ data' = [data EXCEPT
                    !.scenes[SceneAt(data.scenes, selectedSceneId)].title = value]
             /\ storedData' = saveToLocal(data')
             /\ last' = Done("updateSceneTitle", value, "")
    /\ UNCHANGED <<selectedSceneId, imported>>

\* addChoice()
addChoice ==
    /\ Step
    /\ UNCHANGED <<pathVars, autosaveVars, reading>>
    /\ IF SceneMissing(data, selectedSceneId)
       THEN Returns("addChoice", Null)
       ELSE \E id \in makeId(ChoiceIds, UsedChoiceIds(data.scenes)) :
            /\ data' = [data EXCEPT
                    !.scenes[SceneAt(data.scenes, selectedSceneId)].choices =
                        Append(@, NewChoice(id))]
            /\ storedData' = saveToLocal(data')
            /\ last' = Done("addChoice", id, "")
    /\ UNCHANGED <<selectedSceneId, imported>>

\* updateChoiceTarget(choiceId, targetId), targetId the value of an option of
\* the target <select>: the id of a scene or ""
updateChoiceTarget ==
    /\ Step
    /\ UNCHANGED <<pathVars, autosaveVars, reading>>
    /\ \E choiceId \in ChoiceIds, targetId \in OwnIds(data.scenes) \cup {Null} :
        IF SceneMissing(data, selectedSceneId)
        THEN Returns("updateChoiceTarget", choiceId)
        ELSE LET i == SceneAt(data.scenes, selectedSceneId) IN
             IF FindChoice(data.scenes[i].choices, choiceId) = 0
             THEN /\ last' = Done("updateChoiceTarget", choiceId, "")
                  /\ UNCHANGED <<data, storedData>>
             ELSE /\ data' = [data EXCEPT !.scenes[i].choices =
                                SetTarget(@, choiceId, targetId)]
                  /\ storedData' = saveToLocal(data')
                  /\ last' = Done("updateChoiceTarget", choiceId, "")
    /\ UNCHANGED <<selectedSceneId, imported>>

\* deleteChoice(choiceId)
deleteChoice ==
    /\ Step
    /\ UNCHANGED <<pathVars, autosaveVars, reading>>
    /\ \E choiceId \in ChoiceIds :
        IF SceneMissing(data, selectedSceneId)
        THEN Returns("deleteChoice", choiceId)
        ELSE /\ data' = [data EXCEPT
                    !.scenes[SceneAt(data.scenes, selectedSceneId)].choices =
                        FilterChoices(@, choiceId)]
             /\ storedData' = saveToLocal(data')
             /\ last' = Done("deleteChoice", choiceId, "")
    /\ UNCHANGED <<selectedSceneId, imported>>

\* deleteScene()
deleteScene ==
    /\ Step
    /\ UNCHANGED <<pathVars, autosaveVars, reading>>
    /\ IF SceneMissing(data, selectedSceneId)
       THEN /\ Returns("deleteScene", selectedSceneId)
            /\ UNCHANGED selectedSceneId
       ELSE /\ data' = DeleteSceneData(data, selectedSceneId)
            /\ selectedSceneId' = Null
            /\ storedData' = saveToLocal(data')
            /\ last' = Done("deleteScene", selectedSceneId, "")
    /\ UNCHANGED imported

\* importJSON: the FileReader's onload handler for payload number n
importJSON ==
    /\ Step
    /\ UNCHANGED <<pathVars, autosaveVars, reading>>
    /\ \E n \in 1..Len(ImportPayloads) :
        LET p == ImportPayloads[n] IN
        IF p.json = "invalid"
        THEN \* JSON.parse throws
             /\ last' = Done("importJSON", n, MsgError)
             /\ UNCHANGED <<data, selectedSceneId, storedData, imported>>
        ELSE IF ~ImportAccepts(p)
        THEN /\ last' = Done("importJSON", n, MsgInvalid)
             /\ UNCHANGED <<data, selectedSceneId, storedData, imported>>
        ELSE /\ data' = ImportedData(p)
             /\ selectedSceneId' = Null
             /\ imported' = TRUE
             /\ IF data'.scenesNull
                THEN \* renderAll: Object.values(null) throws, caught below
                     /\ UNCHANGED storedData
                     /\ last' = Done("importJSON", n, MsgError)
                ELSE /\ storedData' = saveToLocal(data')
                     /\ last' = Done("importJSON", n, MsgImported)

\* loadSampleStory(storyKey); a non-empty story is replaced only when the
\* author confirms
loadSampleStory ==
    /\ Step
    /\ UNCHANGED <<pathVars, autosaveVars, reading>>
    /\ ~data.scenesNull
    /\ \E confirmed \in BOOLEAN :
        IF Len(data.scenes) > 0 /\ ~confirmed
        THEN /\ last' = Done("loadSampleStory", 0, "")
             /\ UNCHANGED <<data, selectedSceneId, storedData, imported>>
        ELSE /\ data' = SampleStory
             /\ selectedSceneId' = Null
             /\ storedData' = saveToLocal(data')
             /\ last' = Done("loadSampleStory", 1, "")
             /\ UNCHANGED imported

\* localStorage as the code expects it: the snapshot key absent or holding
\* the JSON text of an array, every setItem accepted
Healthy == [payload |-> "array", quota |-> "ok"]

\* a value that is undefined
Undefined == -1

\* the page of the editor: no window.setStory, the story in window.story
Page ==
    [setStory |-> "none", held |-> Undefined, story |-> Null,
     storyData |-> Undefined, currentStory |-> Undefined,
     board |-> Undefined, fired |-> 0]

\* autosave.js at load: no timer, no hash, empty stacks, nothing stored
AutosaveIdle ==
    /\ story = Null
    /\ snapshots = << >>
    /\ lastSaved = Null
    /\ lastHash = << >>
    /\ undoStack = << >>
    /\ redoStack = << >>
    /\ autosaveTimer = Null
    /\ intervals = {}
    /\ timeouts = 0
    /\ now = 0
    /\ listing = [rows |-> << >>, hidden |-> FALSE]
    /\ storage = Healthy
    /\ host = Page
    /\ sinceUndo = "none"

Init ==
    /\ AutosaveIdle
    /\ data = EmptyData
    /\ selectedSceneId = Null
    /\ storedData = << >>
    /\ imported = FALSE
    /\ reading = << >>
    /\ steps = 0
    /\ last = Done("init", 0, "")
    /\ pc = "idle" /\ frames = << >> /\ paths = << >>
    /\ analytics = NoStats

Next ==
    \/ addScene
    \/ selectScene
    \/ updateSceneTitle
    \/ addChoice
    \/ updateChoiceTarget
    \/ deleteChoice
    \/ deleteScene
    \/ importJSON
    \/ loadSampleStory

Spec == Init /\ [][Next]_vars

\* ------------------------------------------------------ claims: the graph

AllChoices(scenes) ==
    UNION {{scenes[i].choices[j] : j \in 1..Len(scenes[i].choices)} :
           i \in 1..Len(scenes)}

\* C1: after any sequence of createScene, deleteScene, addChoice,
\* deleteChoice and updateChoice calls that link a choice to a scene existing
\* at the time of the call (no import has replaced the graph), every choice
\* of every scene has a target that is null or the id of a scene currently
\* in the graph.
C1_TargetsExist ==
    (~imported) =>
        \A c \in AllChoices(data.scenes) :
            c.target = Null \/ c.target \in Ids(data.scenes)

\* C1 witness: the sample story's terminal scene 3, the target of choice 2
\* of scene 1, has just been deleted and that choice is now unlinked.
C1_Witness ==
    /\ ~imported
    /\ steps = 3
    /\ last = Done("deleteScene", 3, "")
    /\ Ids(data.scenes) = {1, 2}
    /\ [id |-> 2, target |-> Null] \in AllChoices(data.scenes)

\* C2: deleteScene applied to the current start scene sets startSceneId to
\* the id of one of the remaining scenes when at least one scene remains and
\* to null when the deleted scene was the last one; applied to a non-start
\* scene it leaves startSceneId unchanged.
C2_DeleteReassignsStart ==
    [][ (last'.op = "deleteScene" /\ HasScene(data, selectedSceneId)) =>
            LET others == Ids(data.scenes) \ {selectedSceneId} IN
            IF data.startSceneId = selectedSceneId
            THEN IF others # {}
                 THEN data'.startSceneId \in others
                 ELSE data'.startSceneId = Null
            ELSE data'.startSceneId = data.startSceneId ]_vars

\* C2 witness: the sample story's start scene 1 has just been deleted while
\* scenes 2 and 3 remain, and the start scene is now one of them.
C2_Witness ==
    /\ steps = 3
    /\ last = Done("deleteScene", 1, "")
    /\ Ids(data.scenes) = {2, 3}
    /\ data.startSceneId \in {2, 3}

\* C3: in every reachable state (createScene, deleteScene, choice
\* operations, sample-story load, accepted JSON imports), if the graph
\* contains at least one scene then startSceneId is the id of a scene in the
\* graph.
C3_StartSceneExists ==
    (~data.scenesNull /\ Len(data.scenes) > 0) =>
        data.startSceneId \in Ids(data.scenes)

\* the payload's scenes field is present and object-typed
ScenesIsObject(p) == p.json = "object" /\ p.scenes = "object"

\* C9: importing a payload whose scenes field is missing or is not an object
\* (a string, a number, null) is rejected with a format error, and the live
\* graph, the selection and the persisted graph are exactly what they were
\* before the import.
C9_BadImportRejected ==
    [][ (last'.op = "importJSON" /\ last'.arg \in 1..Len(ImportPayloads)
            /\ ImportPayloads[last'.arg].json # "invalid"
            /\ ~ScenesIsObject(ImportPayloads[last'.arg])) =>
            /\ last'.msg = MsgInvalid
            /\ data' = data
            /\ selectedSceneId' = selectedSceneId
            /\ storedData' = storedData ]_vars

\* ---------------------------------------------------------- path analyzer

\* scenes of the graphs handed to findAllPaths
MaxPathScenes == 3
\* choices (edges) of those graphs, all scenes together
MaxPathEdges == 3

\* a scene id no graph contains
Dangling == MaxPathScenes + 1

\* scene src gets, in order, the targets of the edges that leave it
ChoicesFrom(edges, src) ==
    LET mine == SelectSeq(edges, LAMBDA e : e[1] = src) IN
    [j \in 1..Len(mine) |-> [id |-> j, target |-> mine[j][2]]]

GraphOf(n, edges, start) ==
    [scenes |-> [i \in 1..n |-> FileScene(i, ChoicesFrom(edges, i))],
     scenesNull |-> FALSE,
     startSceneId |-> start]

\* edge lists in the order of their source scene: every assignment of
\* ordered choice lists to the scenes arises from exactly one of them
SourceOrdered(edges) ==
    \A i \in 1..(Len(edges) - 1) : edges[i][1] <= edges[i + 1][1]

\* the graphs analysed: n scenes, up to MaxPathEdges choices whose targets
\* are null, a scene of the graph or a missing scene, and a startSceneId
\* that is null (the first scene is the start), the last scene or a missing
\* scene
IsPathGraph(d) ==
    \E n \in 0..MaxPathScenes, k \in 0..MaxPathEdges :
        \E edges \in [1..k -> (1..n) \X ((0..n) \cup {Dangling})] :
            \E start \in {Null, n, Dangling} :
                SourceOrdered(edges) /\ d = GraphOf(n, edges, start)

StartFirst(d) == IF Len(d.scenes) > 0 THEN d.scenes[1].id ELSE Null

\* data.startSceneId ? data.scenes[data.startSceneId]
\*                   : Object.values(data.scenes)[0]; Null when undefined
StartScene(d) ==
    IF d.startSceneId # Null
    THEN (IF HasScene(d, d.startSceneId) THEN d.startSceneId ELSE Null)
    ELSE (IF Len(d.scenes) > 0 THEN d.scenes[1].id ELSE Null)

NeverEnding(scene) == FALSE

\* scene.choices.length === 0
IsEnding(scene) == Len(scene.choices) = 0

NeverVisited(visited, sceneId) == FALSE

\* visited.has(sceneId)
AlreadyVisited(visited, sceneId) == sceneId \in visited

\* a call explorePath(sceneId, currentPath, visited); k = 0 before the body
\* has run, then the index of the next choice of the forEach
Frame(sceneId, currentPath, visited) ==
    [sceneId |-> sceneId, path |-> currentPath, visited |-> visited, k |-> 0]

Top == frames[Len(frames)]

Pop == SubSeq(frames, 1, Len(frames) - 1)

\* findAllPaths(): pick the start scene and make the first call
findAllPaths ==
    /\ pc = "idle"
    /\ IF StartScene(data) = Null
       THEN pc' = "done" /\ UNCHANGED frames
       ELSE /\ pc' = "running"
            /\ frames' = << Frame(StartScene(data), << >>, {}) >>
    /\ UNCHANGED <<paths, analytics, editorVars, autosaveVars, steps, last>>

\* explorePath: the body up to the forEach
exploreEnter ==
    /\ pc = "running" /\ frames # << >> /\ Top.k = 0
    /\ IF AlreadyVisited(Top.visited, Top.sceneId) \/ ~HasScene(data, Top.sceneId)
       THEN frames' = Pop /\ UNCHANGED paths
       ELSE LET scene == data.scenes[SceneAt(data.scenes, Top.sceneId)]
                newPath == Append(Top.path, Top.sceneId)
                newVisited == Top.visited \cup {Top.sceneId}
            IN  IF IsEnding(scene)
                THEN paths' = Append(paths, newPath) /\ frames' = Pop
                ELSE /\ frames' = [frames EXCEPT ![Len(frames)] =
                            [Top EXCEPT !.path = newPath,
                                        !.visited = newVisited, !.k = 1]]
                     /\ UNCHANGED paths
    /\ UNCHANGED <<pc, analytics, editorVars, autosaveVars, steps, last>>

\* explorePath: one iteration of scene.choices.forEach
exploreChoice ==
    /\ pc = "running" /\ frames # << >> /\ Top.k > 0
    /\ LET scene == data.scenes[SceneAt(data.scenes, Top.sceneId)] IN
        /\ Top.k <= Len(scene.choices)
        /\ LET target == scene.choices[Top.k].target
               next == [frames EXCEPT ![Len(frames)].k = @ + 1]
           IN  IF target # Null /\ HasScene(data, target)
               THEN frames' = Append(next, Frame(target, Top.path, Top.visited))
               ELSE frames' = next
    /\ UNCHANGED <<pc, paths, analytics, editorVars, autosaveVars, steps, last>>

\* explorePath: the forEach is over and the call returns
exploreReturn ==
    /\ pc = "running" /\ frames # << >> /\ Top.k > 0
    /\ Top.k > Len(data.scenes[SceneAt(data.scenes, Top.sceneId)].choices)
    /\ frames' = Pop
    /\ UNCHANGED <<pc, paths, analytics, editorVars, autosaveVars, steps, last>>

\* findAllPaths: return paths
pathsReturn ==
    /\ pc = "running" /\ frames = << >>
    /\ pc' = "done"
    /\ UNCHANGED <<frames, paths, analytics, editorVars, autosaveVars, steps, last>>

InitPaths ==
    /\ AutosaveIdle
    /\ IsPathGraph(data)
    /\ selectedSceneId = Null
    /\ storedData = << >>
    /\ imported = FALSE
    /\ reading = << >>
    /\ steps = 0
    /\ last = Done("init", 0, "")
    /\ pc = "idle" /\ frames = << >> /\ paths = << >>
    /\ analytics = NoStats

NextPaths ==
    \/ findAllPaths
    \/ exploreEnter
    \/ exploreChoice
    \/ exploreReturn
    \/ pathsReturn

\* the analysis is one synchronous call: once started it runs to its end
SpecPaths == InitPaths /\ [][NextPaths]_vars /\ WF_vars(NextPaths)

NoRepeat(path) ==
    \A i, j \in 1..Len(path) : i # j => path[i] # path[j]

\* C10: findAllPaths terminates on every finite graph, including graphs with
\* directed cycles (A -> B -> A): the recursion never goes deeper than the
\* number of scenes plus one and the call reaches its return; every path it
\* records contains no scene twice, so its length is at most the number of
\* scenes.
C10_PathsTerminate ==
    /\ [](Len(frames) <= Len(data.scenes) + 1)
    /\ [](\A i \in 1..Len(paths) :
            NoRepeat(paths[i]) /\ Len(paths[i]) <= Len(data.scenes))
    /\ <>(pc = "done")

\* C10 witness: the 2-cycle 1 -> 2 -> 1 (scene 1 also has a choice to the
\* terminal scene 3) has been analysed to the end, with one path recorded.
C10_Witness ==
    /\ pc = "done"
    /\ Len(data.scenes) = 3
    /\ data.startSceneId = Null
    /\ data.scenes[1].choices = << [id |-> 1, target |-> 2],
                                   [id |-> 2, target |-> 3] >>
    /\ data.scenes[2].choices = << [id |-> 1, target |-> 1] >>
    /\ paths = << <<1, 3>> >>

\* ------------------------------------------------- autosave: the snapshot store

MAX_SNAPSHOTS == 25

\* distinct story contents the collaborator can hold; Null is "no story"
MaxContent == 3
\* autosave operations explored from the initial state
MaxOps == 4

Contents == 1..MaxContent

\* safeStringify(obj): the JSON text of a story, a string of its own kind
\* ("null" for null); the empty string stands for lastHash = null
safeStringify(state) == << state >>

\* (state && state.title) || null: a story keeps its title under
\* storyMetadata and has no top-level title
TopLevelTitle(state) == Null

\* the item pushSnapshot builds
Item(ts, state) == [ts |-> ts, data |-> state, title |-> TopLevelTitle(state)]

\* snapshots[snapshots.length - 1], for a non-empty log
Newest(snaps) == snaps[Len(snaps)]

SameAsNewest(snaps, state) ==
    Len(snaps) > 0 /\ safeStringify(Newest(snaps).data) = safeStringify(state)

NoDuplicateCheck(snaps, state) == FALSE

\* last && safeStringify(last.data) === safeStringify(item.data)
IsDuplicate(snaps, state) == SameAsNewest(snaps, state)

EvictNewest(snaps) ==
    IF Len(snaps) > MAX_SNAPSHOTS THEN SubSeq(snaps, 1, MAX_SNAPSHOTS) ELSE snaps

EvictToNewest(snaps) ==
    IF Len(snaps) > MAX_SNAPSHOTS THEN << Newest(snaps) >> ELSE snaps

NoEviction(snaps) == snaps

\* while (snapshots.length > MAX_SNAPSHOTS) snapshots.shift()
Evict(snaps) ==
    IF Len(snaps) > MAX_SNAPSHOTS
    THEN SubSeq(snaps, Len(snaps) - MAX_SNAPSHOTS + 1, Len(snaps))
    ELSE snaps

pushSnapshotLengthBefore(snaps, state, ts) ==
    IF IsDuplicate(snaps, state)
    THEN [snaps |-> [snaps EXCEPT ![Len(snaps)].ts = ts], idx |-> Len(snaps)]
    ELSE [snaps |-> Evict(Append(snaps, Item(ts, state))), idx |-> Len(snaps)]

pushSnapshotOverNewest(snaps, state, ts) ==
    IF Len(snaps) > 0
    THEN [snaps |-> [snaps EXCEPT ![Len(snaps)] = Item(ts, state)],
          idx |-> Len(snaps) - 1]
    ELSE [snaps |-> << Item(ts, state) >>, idx |-> 0]

\* pushSnapshot(state) at time ts on the stored log snaps: the log it
\* saves and the index it returns
pushSnapshot(snaps, state, ts) ==
    IF IsDuplicate(snaps, state)
    THEN [snaps |-> [snaps EXCEPT ![Len(snaps)].ts = ts],
          idx |-> Len(snaps) - 1]
    ELSE LET kept == Evict(Append(snaps, Item(ts, state))) IN
         [snaps |-> kept, idx |-> Len(kept) - 1]

\* snaps[idx] is an entry (idx is a JavaScript index, from 0)
HasEntry(snaps, idx) == idx >= 0 /\ idx < Len(snaps)

EntryAt(snaps, idx) == snaps[idx + 1]

\* snaps.splice(idx, 1)
Splice(snaps, idx) ==
    [i \in 1..(Len(snaps) - 1) |-> IF i <= idx THEN snaps[i] ELSE snaps[i + 1]]

Differs(snaps, i, curHash) == safeStringify(snaps[i].data) # curHash

OldestDifferent(snaps, curHash) ==
    IF \E i \in 1..Len(snaps) : Differs(snaps, i, curHash)
    THEN (CHOOSE i \in 1..Len(snaps) :
            /\ Differs(snaps, i, curHash)
            /\ \A j \in 1..(i - 1) : ~Differs(snaps, j, curHash)) - 1
    ELSE -1

NewestEntry(snaps, curHash) == Len(snaps) - 1

\* handleUndo: for (i = snaps.length - 1; i >= 0; i--) stops at the first
\* i whose data differs from the current story; -1 when there is none
LastDifferent(snaps, curHash) ==
    IF \E i \in 1..Len(snaps) : Differs(snaps, i, curHash)
    THEN (CHOOSE i \in 1..Len(snaps) :
            /\ Differs(snaps, i, curHash)
            /\ \A j \in (i + 1)..Len(snaps) : ~Differs(snaps, j, curHash)) - 1
    ELSE -1

\* readStory(): the live story, or null
readStory == story

KeepStory(state) == story

\* writeStory(state): window.story = state
writeStory(state) == state

BaselineKept(content) == lastHash

\* lastHash = safeStringify(snap.data), after a restore of snap
BaselineAfter(content) == safeStringify(content)

NeverNoStory(state) == FALSE

\* !state, for what readStory() returned
NoStory(state) == state = Null

NeverSameHash(hash, baseline) == FALSE

AlwaysSameHash(hash, baseline) == TRUE

\* hash === lastHash
SameHash(hash, baseline) == hash = baseline

MsgNothingToUndo == "Nothing to undo"
MsgNoEarlier == "No earlier snapshot"
MsgUndo == "Undo"
MsgNothingToRedo == "Nothing to redo"
MsgRedoFailed == "Redo failed"
MsgRedo == "Redo"
MsgRestored == "Snapshot restored"
MsgSaved == "Saved"

\* every operation takes time: the clock has moved on when it reads it
StepA == steps < MaxOps /\ steps' = steps + 1 /\ now' = now + 1

\* the log a session finds in storage: n snapshots taken at times 1..n,
\* consecutive ones of different content
StoredLog(n) == [i \in 1..n |-> Item(i, 1 + (i % MaxContent))]

\* lengths of the stored log a session starts from
StoredLengths == {0, 2, MAX_SNAPSHOTS - 1}

\* --------------------------------------------------- autosave: operations

\* the indexes tried on a log of n entries: the oldest entry, the two newest
\* and the first index past the end (negative ones when the log is short)
IdxInputs(n) == {0, n - 2, n - 1, n}

clearNothing(timers, id) == timers

\* clearInterval(id)
clearInterval(timers, id) == timers \ {id}

\* setInterval's return value: a timer id not in use
NewTimer == CHOOSE t \in 1..(Cardinality(intervals) + 2) :
                /\ t \notin intervals \cup {autosaveTimer}
                /\ \A u \in 1..(t - 1) : u \in intervals \cup {autosaveTimer}

\* the collaborator edits the live story
mutate ==
    /\ StepA
    /\ \E c \in Contents \ {story} :
        /\ story' = c
        /\ last' = Did("mutate", c, "", Null, Null)
    /\ sinceUndo' = IF sinceUndo = "none" THEN "none" ELSE "mutated"
    /\ UNCHANGED <<snapshots, lastSaved, lastHash, undoStack, redoStack,
                   autosaveTimer, intervals, timeouts>>
    /\ UNCHANGED <<editorVars, pathVars, listing, storage, host>>

\* loadSnapshots() returns null: the key holds the JSON text null
LoadsNull(st) == st.payload = "null"

\* what loadSnapshots() returns otherwise: the stored array, or [] when the
\* key is absent, getItem throws or the text does not parse
loadSnapshots == IF storage.payload = "array" THEN snapshots ELSE << >>

\* saveSnapshots(arr): setItem throws and the catch drops the write
SaveDropped(st) == st.quota # "ok"

\* localStorage.setItem(LAST_KEY, item.ts) throws
SetItemThrows(st) == st.quota = "denied"

MsgQuota == "QuotaExceededError"

\* a call pushSnapshot(state) at time ts: the log and the last-saved marker
\* storage holds after it, the index it returns and the error it raises
Push(state, ts) ==
    IF LoadsNull(storage)
    THEN [snaps |-> snapshots, saved |-> lastSaved, storage |-> storage,
          idx |-> -1, err |-> MsgTypeError]
    ELSE LET r == pushSnapshot(loadSnapshots, state, ts) IN
         [snaps |-> IF SaveDropped(storage) THEN snapshots ELSE r.snaps,
          saved |-> IF SetItemThrows(storage) THEN lastSaved ELSE ts,
          storage |-> IF SaveDropped(storage) THEN storage
                      ELSE [storage EXCEPT !.payload = "array"],
          idx |-> r.idx,
          err |-> IF SetItemThrows(storage) THEN MsgQuota ELSE ""]

\* autosaveTick(), called as operation op, which then shows msg
Tick(op, msg) ==
    LET state == readStory
        hash == safeStringify(state)
    IN  IF NoStory(state) \/ SameHash(hash, lastHash)
        THEN /\ last' = Did(op, Null, msg, Null, Null)
             /\ UNCHANGED <<snapshots, lastSaved, lastHash, undoStack,
                            redoStack, storage>>
        ELSE LET p == Push(state, now') IN
             /\ lastHash' = hash
             /\ snapshots' = p.snaps
             /\ lastSaved' = p.saved
             /\ storage' = p.storage
             /\ IF p.err # ""
                THEN /\ last' = Did(op, state, p.err, Null, Null)
                     /\ UNCHANGED <<undoStack, redoStack>>
                ELSE /\ undoStack' = Append(undoStack, p.idx)
                     /\ redoStack' = << >>
                     /\ last' = Did(op, state, msg, p.idx, Null)

\* the interval timer fires: its first tick is due AUTOSAVE_INTERVAL_MS after
\* the startAutosave that made it, later than the 200 ms timeout of that and
\* of every earlier startAutosave
periodicTick ==
    /\ StepA
    /\ intervals # {}
    /\ timeouts = 0
    /\ Tick("periodicTick", "")
    /\ UNCHANGED <<story, autosaveTimer, intervals, timeouts, sinceUndo>>
    /\ UNCHANGED <<editorVars, pathVars, listing, host>>

\* the setTimeout(autosaveTick, 200) of startAutosave fires
timeoutTick ==
    /\ StepA
    /\ timeouts > 0
    /\ timeouts' = timeouts - 1
    /\ Tick("timeoutTick", "")
    /\ UNCHANGED <<story, autosaveTimer, intervals, sinceUndo>>
    /\ UNCHANGED <<editorVars, pathVars, listing, host>>

\* the Save button: autosaveTick(); flashMessage("Saved")
saveNow ==
    /\ StepA
    /\ Tick("saveNow", MsgSaved)
    /\ UNCHANGED <<story, autosaveTimer, intervals, timeouts, sinceUndo>>
    /\ UNCHANGED <<editorVars, pathVars, listing, host>>

\* startAutosave()
startAutosave ==
    /\ StepA
    /\ autosaveTimer' = NewTimer
    /\ intervals' = (IF autosaveTimer # Null
                     THEN clearInterval(intervals, autosaveTimer)
                     ELSE intervals) \cup {NewTimer}
    /\ timeouts' = timeouts + 1
    /\ last' = Did("startAutosave", Null, "", Null, Null)
    /\ UNCHANGED <<story, snapshots, lastSaved, lastHash, undoStack, redoStack,
                   sinceUndo>>
    /\ UNCHANGED <<editorVars, pathVars, listing, storage, host>>

\* stopAutosave()
stopAutosave ==
    /\ StepA
    /\ IF autosaveTimer # Null
       THEN /\ intervals' = clearInterval(intervals, autosaveTimer)
            /\ autosaveTimer' = Null
       ELSE UNCHANGED <<intervals, autosaveTimer>>
    /\ last' = Did("stopAutosave", Null, "", Null, Null)
    /\ UNCHANGED <<story, snapshots, lastSaved, lastHash, undoStack, redoStack,
                   timeouts, sinceUndo>>
    /\ UNCHANGED <<editorVars, pathVars, listing, storage, host>>

\* storyForgeAutosave.pushSnapshot(state): the store's append
pushSnapshotCall ==
    /\ StepA
    /\ \E state \in Contents :
        LET p == Push(state, now') IN
        /\ snapshots' = p.snaps
        /\ lastSaved' = p.saved
        /\ storage' = p.storage
        /\ last' = Did("pushSnapshot", state, p.err,
                       IF p.err = "" THEN p.idx ELSE Null, Null)
    /\ UNCHANGED <<story, lastHash, undoStack, redoStack, autosaveTimer,
                   intervals, timeouts, sinceUndo>>
    /\ UNCHANGED <<editorVars, pathVars, listing, host>>

\* renderHistoryModal(): the list shows the stored log, one row per entry,
\* and each row's buttons carry the entry's position (data-idx)
renderHistoryModal(snaps) == snaps

\* deleteSnapshotIndex(idx), called as operation op
Delete(op, idx) ==
    /\ IF LoadsNull(storage)
       THEN /\ last' = Did(op, idx, MsgTypeError, Null, Null)
            /\ UNCHANGED snapshots
       ELSE /\ snapshots' = IF HasEntry(loadSnapshots, idx)
                                /\ ~SaveDropped(storage)
                            THEN Splice(loadSnapshots, idx) ELSE snapshots
            /\ last' = Did(op, idx, "", Null, Null)
    /\ UNCHANGED <<story, lastSaved, lastHash, undoStack, redoStack,
                   autosaveTimer, intervals, timeouts, sinceUndo>>
    /\ UNCHANGED <<editorVars, pathVars, storage, host>>

\* deleteSnapshotIndex(idx): a caller that names a position of its own
deleteSnapshotIndex ==
    /\ StepA
    /\ \E idx \in IdxInputs(Len(snapshots)) : Delete("deleteSnapshotIndex", idx)
    /\ UNCHANGED listing

\* the Clear button, confirmed: localStorage.removeItem(SNAP_KEY);
\* renderHistoryModal()
clearHistory ==
    /\ StepA
    /\ snapshots' = << >>
    /\ storage' = [storage EXCEPT !.payload = "array"]
    /\ listing' = [listing EXCEPT !.rows = renderHistoryModal(snapshots')]
    /\ last' = Did("clearHistory", Null, "", Null, Null)
    /\ UNCHANGED <<story, lastSaved, lastHash, undoStack, redoStack,
                   autosaveTimer, intervals, timeouts, sinceUndo>>
    /\ UNCHANGED <<editorVars, pathVars, host>>

\* restoreSnapshotIndex(idx), called as operation op
Restore(op, idx) ==
    /\ IF LoadsNull(storage)
       THEN /\ last' = Did(op, idx, MsgTypeError, Null, story)
            /\ UNCHANGED <<story, snapshots, lastSaved, lastHash, undoStack,
                           redoStack, sinceUndo, storage>>
       ELSE IF ~HasEntry(loadSnapshots, idx)
       THEN /\ last' = Did(op, idx, "", Null, story)
            /\ UNCHANGED <<story, snapshots, lastSaved, lastHash, undoStack,
                           redoStack, sinceUndo, storage>>
       ELSE LET snap == EntryAt(loadSnapshots, idx)
                current == readStory
                p == Push(current, now')
            IN  IF current # Null /\ p.err # ""
                THEN \* pushSnapshot(current) throws
                     /\ snapshots' = p.snaps
                     /\ lastSaved' = p.saved
                     /\ storage' = p.storage
                     /\ last' = Did(op, idx, p.err, Null, story)
                     /\ UNCHANGED <<story, lastHash, undoStack, redoStack,
                                    sinceUndo>>
                ELSE /\ IF current # Null
                        THEN /\ snapshots' = p.snaps
                             /\ lastSaved' = p.saved
                             /\ storage' = p.storage
                             /\ redoStack' = Append(redoStack, p.idx)
                        ELSE UNCHANGED <<snapshots, lastSaved, redoStack,
                                         storage>>
                     /\ story' = writeStory(snap.data)
                     /\ lastHash' = BaselineAfter(snap.data)
                     /\ undoStack' = Append(undoStack, idx)
                     /\ sinceUndo' = "none"
                     /\ last' = Did(op, idx, MsgRestored, Null, story)
    /\ UNCHANGED <<autosaveTimer, intervals, timeouts>>
    /\ UNCHANGED <<editorVars, pathVars, host>>

\* restoreSnapshotIndex(idx): a caller that names a position of its own
restoreSnapshotIndex ==
    /\ StepA
    /\ \E idx \in IdxInputs(Len(snapshots)) :
            Restore("restoreSnapshotIndex", idx)
    /\ UNCHANGED listing

\* handleUndo()
handleUndo ==
    /\ StepA
    /\ LET snaps == loadSnapshots
           current == readStory
           curHash == safeStringify(current)
           i == LastDifferent(snaps, curHash)
       IN  IF LoadsNull(storage)
           THEN /\ last' = Did("handleUndo", Null, MsgTypeError, Null, story)
                /\ UNCHANGED <<story, snapshots, lastSaved, lastHash,
                               redoStack, sinceUndo, storage>>
           ELSE IF Len(snaps) = 0 \/ i < 0
           THEN /\ last' = Did("handleUndo", Null,
                               IF Len(snaps) = 0 THEN MsgNothingToUndo
                               ELSE MsgNoEarlier, Null, story)
                /\ UNCHANGED <<story, snapshots, lastSaved, lastHash,
                               redoStack, sinceUndo, storage>>
           ELSE LET p == Push(current, now') IN
                /\ snapshots' = p.snaps
                /\ lastSaved' = p.saved
                /\ storage' = p.storage
                /\ IF p.err # ""
                   THEN /\ last' = Did("handleUndo", i, p.err, Null, story)
                        /\ UNCHANGED <<story, lastHash, redoStack, sinceUndo>>
                   ELSE /\ redoStack' = Append(redoStack, p.idx)
                        /\ story' = writeStory(EntryAt(snaps, i).data)
                        /\ lastHash' = BaselineAfter(EntryAt(snaps, i).data)
                        /\ sinceUndo' = "undone"
                        /\ last' = Did("handleUndo", i, MsgUndo, Null, story)
    /\ UNCHANGED <<undoStack, autosaveTimer, intervals, timeouts>>
    /\ UNCHANGED <<editorVars, pathVars, listing, host>>

NothingToRedoNever(stack) == FALSE

\* !redoStack.length
NothingToRedo(stack) == Len(stack) = 0

\* what redoStack.pop() returns; -1, no index of any log, stands for undefined
PopTop(stack) == IF Len(stack) = 0 THEN -1 ELSE stack[Len(stack)]

\* handleRedo()
handleRedo ==
    /\ StepA
    /\ IF NothingToRedo(redoStack)
       THEN /\ last' = Did("handleRedo", Null, MsgNothingToRedo, Null, story)
            /\ UNCHANGED <<story, snapshots, lastSaved, lastHash, redoStack,
                           storage>>
       ELSE LET snaps == loadSnapshots
                idx == PopTop(redoStack)
                current == readStory
                p == Push(current, now')
            IN  /\ redoStack' = SubSeq(redoStack, 1, Len(redoStack) - 1)
                /\ IF LoadsNull(storage)
                   THEN /\ last' = Did("handleRedo", idx, MsgTypeError,
                                       Null, story)
                        /\ UNCHANGED <<story, snapshots, lastSaved, lastHash,
                                       storage>>
                   ELSE IF ~HasEntry(snaps, idx)
                   THEN /\ last' = Did("handleRedo", idx, MsgRedoFailed,
                                       Null, story)
                        /\ UNCHANGED <<story, snapshots, lastSaved, lastHash,
                                       storage>>
                   ELSE IF current # Null /\ p.err # ""
                   THEN \* pushSnapshot(current) throws
                        /\ snapshots' = p.snaps
                        /\ lastSaved' = p.saved
                        /\ storage' = p.storage
                        /\ last' = Did("handleRedo", idx, p.err, Null, story)
                        /\ UNCHANGED <<story, lastHash>>
                   ELSE /\ IF current # Null
                           THEN /\ snapshots' = p.snaps
                                /\ lastSaved' = p.saved
                                /\ storage' = p.storage
                           ELSE UNCHANGED <<snapshots, lastSaved, storage>>
                        /\ story' = writeStory(EntryAt(snaps, idx).data)
                        /\ lastHash' = BaselineAfter(EntryAt(snaps, idx).data)
                        /\ last' = Did("handleRedo", idx, MsgRedo, Null, story)
    /\ UNCHANGED <<undoStack, autosaveTimer, intervals, timeouts, sinceUndo>>
    /\ UNCHANGED <<editorVars, pathVars, listing, host>>

\* a session: autosave.js has just loaded, the collaborator holds a story or
\* none, and storage holds the log earlier sessions left
InitAutosave ==
    /\ data = EmptyData
    /\ selectedSceneId = Null
    /\ storedData = << >>
    /\ imported = FALSE
    /\ reading = << >>
    /\ steps = 0
    /\ last = Done("init", 0, "")
    /\ pc = "idle" /\ frames = << >> /\ paths = << >>
    /\ analytics = NoStats
    /\ story \in {Null} \cup Contents
    /\ \E n \in StoredLengths :
        /\ snapshots = StoredLog(n)
        /\ lastSaved = n
        /\ now = n
    /\ lastHash = << >>
    /\ undoStack = << >>
    /\ redoStack = << >>
    /\ autosaveTimer = Null
    /\ intervals = {}
    /\ timeouts = 0
    /\ listing = [rows |-> << >>, hidden |-> FALSE]
    /\ storage = Healthy
    /\ host = Page
    /\ sinceUndo = "none"

NextAutosave ==
    \/ mutate
    \/ periodicTick
    \/ timeoutTick
    \/ saveNow
    \/ startAutosave
    \/ stopAutosave
    \/ pushSnapshotCall
    \/ deleteSnapshotIndex
    \/ clearHistory
    \/ restoreSnapshotIndex
    \/ handleUndo
    \/ handleRedo

SpecAutosave == InitAutosave /\ [][NextAutosave]_vars

\* -------------------------------------------- the store under appends alone

\* contents appended one after the other, each one new
MaxAppends == 27
\* appends that repeat the newest content
MaxRepeats == 2

\* the content of the newest entry, Null for an empty log
NewestData(snaps) == IF Len(snaps) = 0 THEN Null ELSE Newest(snaps).data

\* storyForgeAutosave.pushSnapshot(state), state being the next new content
\* or the newest one again; contents are numbered in the order they appear
appendNext ==
    /\ now' = now + 1
    /\ \E state \in {NewestData(snapshots), NewestData(snapshots) + 1}
                        \cap (1..MaxAppends) :
        LET r == pushSnapshot(snapshots, state, now') IN
        /\ state = NewestData(snapshots) =>
                now - NewestData(snapshots) < MaxRepeats
        /\ snapshots' = r.snaps
        /\ lastSaved' = now'
        /\ last' = Did("pushSnapshot", state, "", r.idx, Null)
    /\ UNCHANGED <<story, lastHash, undoStack, redoStack, autosaveTimer,
                   intervals, timeouts, sinceUndo, steps>>
    /\ UNCHANGED <<editorVars, pathVars, listing, storage, host>>

InitAppend ==
    /\ AutosaveIdle
    /\ data = EmptyData
    /\ selectedSceneId = Null
    /\ storedData = << >>
    /\ imported = FALSE
    /\ reading = << >>
    /\ steps = 0
    /\ last = Done("init", 0, "")
    /\ pc = "idle" /\ frames = << >> /\ paths = << >>
    /\ analytics = NoStats

NextAppend == appendNext

SpecAppend == InitAppend /\ [][NextAppend]_vars

\* ------------------------------------------------------ claims: the store

\* C4: append(x) called when the newest log entry already has content
\* identical to x creates no new entry: the log length and the content and
\* order of all entries are unchanged, only the newest entry's timestamp is
\* refreshed, and the returned index is that of the (unchanged) newest entry.
C4_DuplicateAppend ==
    [][ (last'.op = "pushSnapshot" /\ SameAsNewest(snapshots, last'.arg)) =>
            /\ Len(snapshots') = Len(snapshots)
            /\ \A i \in 1..Len(snapshots) :
                /\ snapshots'[i].data = snapshots[i].data
                /\ snapshots'[i].title = snapshots[i].title
            /\ \A i \in 1..(Len(snapshots) - 1) :
                snapshots'[i].ts = snapshots[i].ts
            /\ Newest(snapshots').ts = now'
            /\ Newest(snapshots').ts > Newest(snapshots).ts
            /\ last'.ret = Len(snapshots) - 1 ]_vars

\* C4 witness: the first operation of a session that found two stored
\* snapshots was an append of the newest one's content: still two entries,
\* the newest with the time of the call, and index 1 returned.
C4_Witness ==
    /\ steps = 1
    /\ last.op = "pushSnapshot"
    /\ Len(snapshots) = 2
    /\ last.arg = snapshots[2].data
    /\ snapshots[1].ts = 1
    /\ snapshots[2].ts = 3
    /\ last.ret = 1

\* C5: in every reachable state, under any interleaving of autosave ticks,
\* manual saves, undo, redo, restoreExplicit, deleteAt and clear, the
\* persisted Snapshot Log holds at most 25 entries.
C5_LogBounded == Len(snapshots) <= MAX_SNAPSHOTS

\* C5 witness: an undo has just appended the live story to a full log, the
\* oldest stored entry (taken at time 1) is gone and 25 entries remain.
C5_Witness ==
    /\ last.op = "handleUndo"
    /\ last.msg = MsgUndo
    /\ Len(snapshots) = MAX_SNAPSHOTS
    /\ snapshots[1].ts = 2
    /\ Newest(snapshots).ts = now

Min(a, b) == IF a < b THEN a ELSE b

\* C6: a genuine append that takes the log over 25 entries removes exactly
\* the oldest entries from the front and keeps the remaining entries in
\* append order, so after appending n > 25 pairwise-distinct contents
\* (numbered 1..n in the order of their appends) the log is exactly the 25
\* most recently appended contents, oldest first.
C6_FifoEviction ==
    /\ [](LET n == NewestData(snapshots) IN
          /\ Len(snapshots) = Min(n, MAX_SNAPSHOTS)
          /\ \A i \in 1..Len(snapshots) :
                snapshots[i].data = n - Len(snapshots) + i)
    /\ [][ (last'.op = "pushSnapshot"
                /\ ~SameAsNewest(snapshots, last'.arg)
                /\ Len(snapshots) = MAX_SNAPSHOTS) =>
            snapshots' = Append(Tail(snapshots), Item(now', last'.arg)) ]_vars

\* C6 witness: 27 distinct contents have been appended and the log holds
\* contents 3 to 27.
C6_Witness ==
    /\ Len(snapshots) = MAX_SNAPSHOTS
    /\ snapshots[1].data = 3
    /\ Newest(snapshots).data = 27
    /\ last.op = "pushSnapshot"

\* ---------------------------------------------------- claims: undo / redo

\* C7: starting with live content P captured as the newest snapshot, after
\* one mutation to content C different from P (whether or not a tick has
\* captured C: the newest entry is P, or the two newest are P then C),
\* undo() makes the live graph equal P, and a redo() directly after that
\* undo makes the live graph equal C, the content that was live before it.
C7_UndoThenRedo ==
    [][ /\ (last'.op = "handleUndo" /\ Len(snapshots) > 0
                /\ Newest(snapshots).data # story) =>
                story' = Newest(snapshots).data
        /\ (last'.op = "handleUndo" /\ Len(snapshots) > 1
                /\ Newest(snapshots).data = story
                /\ snapshots[Len(snapshots) - 1].data # story) =>
                story' = snapshots[Len(snapshots) - 1].data
        /\ (last.op = "handleUndo" /\ last.msg = MsgUndo
                /\ last'.op = "handleRedo") =>
                (last'.msg = MsgRedo /\ story' = last.prev) ]_vars

\* C7 witness: a session found the log (2, 3) with 3 live; the story was
\* edited to 1, undo brought 3 back and redo has just brought 1 back.
C7_Witness ==
    /\ steps = 3
    /\ last.op = "handleRedo" /\ last.msg = MsgRedo /\ last.prev = 3
    /\ story = 1
    /\ Len(snapshots) = 4
    /\ snapshots[3].data = 1 /\ snapshots[4].data = 3
    /\ sinceUndo = "undone"
    /\ undoStack = << >>

\* C8: after an undo(), once the graph has been mutated to new content,
\* every subsequent redo() reports "nothing to redo" and leaves the live
\* graph unchanged, whenever redo() is invoked relative to the next autosave
\* tick.
C8_RedoAfterEdit ==
    [][ (sinceUndo = "mutated" /\ last'.op = "handleRedo") =>
            (last'.msg = MsgNothingToRedo /\ story' = story) ]_vars

\* ------------------------------------------------- claims: the paths found

\* the scene a story starts at: startSceneId, or the first scene when
\* startSceneId is null; Null when that is no scene of the graph
StartOf(d) ==
    IF d.startSceneId # Null
    THEN (IF d.startSceneId \in Ids(d.scenes) THEN d.startSceneId ELSE Null)
    ELSE (IF Len(d.scenes) > 0 THEN d.scenes[1].id ELSE Null)

\* the choices of scene a that lead to scene b
Links(d, a, b) ==
    LET cs == d.scenes[SceneAt(d.scenes, a)].choices IN
    {j \in 1..Len(cs) : cs[j].target = b}

\* the sequences of existing scenes without a repeat that begin at the start
\* scene, go from each scene to the next through one of its choices and end
\* at a scene with no choice
SimplePaths(d) ==
    LET ids == Ids(d.scenes) IN
    {p \in UNION {[1..k -> ids] : k \in 1..Cardinality(ids)} :
        /\ p[1] = StartOf(d)
        /\ NoRepeat(p)
        /\ \A i \in 1..(Len(p) - 1) : Links(d, p[i], p[i + 1]) # {}
        /\ Len(d.scenes[SceneAt(d.scenes, p[Len(p)])].choices) = 0}

\* the ways of walking p from its i-th scene on, one choice per step
RECURSIVE Walks(_, _, _)
Walks(d, p, i) ==
    IF i >= Len(p) THEN 1
    ELSE Cardinality(Links(d, p[i], p[i + 1])) * Walks(d, p, i + 1)

Occurrences(p) == Cardinality({i \in 1..Len(paths) : paths[i] = p})

\* C11: findAllPaths returns exactly the simple paths (no repeated scene)
\* that begin at the start scene (startSceneId, or the first scene when
\* startSceneId is null and the graph is non-empty), follow only choices
\* whose target is an existing scene, and end at a scene with zero choices,
\* each once per sequence of choices that walks it; a branch that reaches a
\* scene already on its own path records nothing. For two scenes a, b with
\* the single choice a -> b and start a the result is exactly [a, b].
C11_ExactlySimplePaths ==
    (pc = "done") =>
        /\ \A i \in 1..Len(paths) : paths[i] \in SimplePaths(data)
        /\ \A p \in SimplePaths(data) : Occurrences(p) = Walks(data, p, 1)
        /\ \A a, b \in Ids(data.scenes) :
            (/\ Len(data.scenes) = 2 /\ a # b
             /\ StartOf(data) = a
             /\ data.scenes[SceneAt(data.scenes, a)].choices
                    = << [id |-> 1, target |-> b] >>
             /\ data.scenes[SceneAt(data.scenes, b)].choices = << >>)
                => paths = << <<a, b>> >>

\* C11 witness: three scenes with startSceneId 3; 3 -> 1, 1 -> 2, 1 -> 3
\* (back onto the path). The analysis is over and found 3, 1, 2 alone.
C11_Witness ==
    /\ pc = "done"
    /\ Len(data.scenes) = 3
    /\ data.startSceneId = 3
    /\ data.scenes[3].choices = << [id |-> 1, target |-> 1] >>
    /\ data.scenes[1].choices = << [id |-> 1, target |-> 2],
                                   [id |-> 2, target |-> 3] >>
    /\ data.scenes[2].choices = << >>
    /\ paths = << <<3, 1, 2>> >>

\* C12: when the start scene has zero choices, findAllPaths returns exactly
\* one path, of length 1, consisting of the start scene, whatever other
\* scenes the graph contains.
C12_LoneStart ==
    (/\ pc = "done"
     /\ StartOf(data) # Null
     /\ Len(data.scenes[SceneAt(data.scenes, StartOf(data))].choices) = 0)
        => paths = << << StartOf(data) >> >>

\* C12 witness: the start scene 3 has no choice while scenes 1 and 2 point
\* at each other and at 3; the analysis is over with the one path (3).
C12_Witness ==
    /\ pc = "done"
    /\ Len(data.scenes) = 3
    /\ data.startSceneId = 3
    /\ data.scenes[3].choices = << >>
    /\ Len(data.scenes[1].choices) = 2
    /\ Len(data.scenes[2].choices) = 1
    /\ paths = << <<3>> >>

\* ------------------------------------------- claims: undo, redo and restore

\* entry i (from 1) of the log is the newest whose content differs from
\* content c
NewestDiffering(snaps, i, c) ==
    /\ i \in 1..Len(snaps)
    /\ snaps[i].data # c
    /\ \A j \in (i + 1)..Len(snaps) : snaps[j].data = c

\* stack is old with one identity pushed on it
Pushed(old, stack) ==
    Len(stack) = Len(old) + 1 /\ SubSeq(stack, 1, Len(old)) = old

\* C13: when the log contains an entry whose content differs from the live
\* graph, undo() sets the live graph to the content of the newest such
\* entry (scanning newest to oldest), after first appending the pre-undo
\* live content to the log and recording that entry's identity on
\* redoStack, so that directly after undo() the top of redoStack designates
\* a log entry whose content equals the pre-undo live content.
C13_UndoRestoresNewestDiffering ==
    [][ \A i \in 1..Len(snapshots) :
          (last'.op = "handleUndo" /\ NewestDiffering(snapshots, i, story)) =>
            /\ last'.msg = MsgUndo
            /\ story' = snapshots[i].data
            /\ Newest(snapshots').data = story
            /\ Newest(snapshots').ts = now'
            /\ Pushed(redoStack, redoStack')
            /\ HasEntry(snapshots', redoStack'[Len(redoStack')])
            /\ EntryAt(snapshots', redoStack'[Len(redoStack')]).data = story
      ]_vars

\* C13 witness: with the log (2, 3, 1) and 1 live, the newest entry equal to
\* the live story, undo has brought back 3; the append only refreshed the
\* newest entry and redoStack designates it.
C13_Witness ==
    /\ last.op = "handleUndo" /\ last.msg = MsgUndo /\ last.prev = 1
    /\ story = 3
    /\ Len(snapshots) = 3
    /\ snapshots[2].data = 3 /\ snapshots[3].data = 1
    /\ snapshots[3].ts = now
    /\ redoStack = << 2 >>

\* C14: when the log is empty or every log entry has the same content as
\* the live graph, undo() reports that there is nothing to undo and changes
\* nothing: the live graph, the log (entries and timestamps), the baseline
\* hash, undoStack and redoStack are all unchanged.
C14_NothingToUndo ==
    [][ (last'.op = "handleUndo"
            /\ \A i \in 1..Len(snapshots) : snapshots[i].data = story) =>
            /\ last'.msg = IF Len(snapshots) = 0
                           THEN "Nothing to undo" ELSE "No earlier snapshot"
            /\ story' = story
            /\ snapshots' = snapshots
            /\ lastSaved' = lastSaved
            /\ lastHash' = lastHash
            /\ undoStack' = undoStack
            /\ redoStack' = redoStack ]_vars

\* C14 witness: the log is down to one entry, of the live story's content,
\* and undo has just reported that there is no earlier snapshot.
C14_Witness ==
    /\ last.op = "handleUndo" /\ last.msg = MsgNoEarlier
    /\ Len(snapshots) = 1
    /\ snapshots[1].data = story
    /\ snapshots[1].ts < now

\* C15: redo() with an empty redoStack reports nothing to redo and changes
\* nothing: the live graph, the log, the baseline hash and both stacks are
\* unchanged.
C15_NothingToRedo ==
    [][ (last'.op = "handleRedo" /\ redoStack = << >>) =>
            /\ last'.msg = "Nothing to redo"
            /\ story' = story
            /\ snapshots' = snapshots
            /\ lastSaved' = lastSaved
            /\ lastHash' = lastHash
            /\ undoStack' = undoStack
            /\ redoStack' = << >> ]_vars

\* C15 witness: after a tick that saved the live story and left redoStack
\* empty, redo has reported that there is nothing to redo.
C15_Witness ==
    /\ last.op = "handleRedo" /\ last.msg = MsgNothingToRedo
    /\ redoStack = << >>
    /\ undoStack # << >>
    /\ story # Null
    /\ lastHash = safeStringify(story)

\* C16: a redo() with a non-empty redoStack removes exactly the top
\* identity, appends the pre-redo live content to the log before changing
\* the live graph, and then sets the live graph to the content of the
\* snapshot the popped identity designates; an undo() directly afterwards
\* restores the pre-redo live content.
C16_RedoThenUndo ==
    [][ /\ (last'.op = "handleRedo" /\ redoStack # << >>) =>
            /\ redoStack' = SubSeq(redoStack, 1, Len(redoStack) - 1)
            /\ HasEntry(snapshots, redoStack[Len(redoStack)])
            /\ story' = EntryAt(snapshots, redoStack[Len(redoStack)]).data
            /\ story # Null => Newest(snapshots').data = story
        /\ (last.op = "handleRedo" /\ last.msg = MsgRedo /\ last.prev # Null
                /\ last'.op = "handleUndo") =>
            story' = last.prev ]_vars

\* C17: restoreExplicit on a valid entry first appends the current live
\* content to the log (also when the log is full and the append evicts the
\* oldest entry), then sets the live graph to the content the chosen entry
\* had when the call began; an undo() directly afterwards restores the
\* pre-restore live content. With an index outside the log it changes
\* nothing.
C17_RestoreThenUndoAlways ==
    [][ /\ (last'.op = "restoreSnapshotIndex"
                /\ HasEntry(snapshots, last'.arg)) =>
            /\ story' = EntryAt(snapshots, last'.arg).data
            /\ story # Null =>
                (Newest(snapshots').data = story /\ Newest(snapshots').ts = now')
        /\ (last'.op = "restoreSnapshotIndex"
                /\ ~HasEntry(snapshots, last'.arg)) =>
            /\ story' = story /\ snapshots' = snapshots
            /\ lastHash' = lastHash
            /\ undoStack' = undoStack /\ redoStack' = redoStack
        /\ (last.op = "restoreSnapshotIndex" /\ last.msg = MsgRestored
                /\ last.prev # Null /\ last'.op = "handleUndo") =>
            story' = last.prev ]_vars

\* C17 amended: as C17, with the undo() directly afterwards restoring the
\* pre-restore live content when the restore changed the live content (the
\* chosen entry's content differed from it); the append takes place when
\* there is a live graph.
C17_RestoreThenUndo ==
    [][ /\ (last'.op = "restoreSnapshotIndex"
                /\ HasEntry(snapshots, last'.arg)) =>
            /\ story' = EntryAt(snapshots, last'.arg).data
            /\ story # Null =>
                (Newest(snapshots').data = story /\ Newest(snapshots').ts = now')
        /\ (last'.op = "restoreSnapshotIndex"
                /\ ~HasEntry(snapshots, last'.arg)) =>
            /\ story' = story /\ snapshots' = snapshots
            /\ lastHash' = lastHash
            /\ undoStack' = undoStack /\ redoStack' = redoStack
        /\ (last.op = "restoreSnapshotIndex" /\ last.msg = MsgRestored
                /\ last.prev # Null /\ last.prev # story
                /\ last'.op = "handleUndo") =>
            story' = last.prev ]_vars

\* C17 witness: the oldest entry of a full log has just been restored over
\* a different live story: the append of that story evicted the entry it
\* restored, whose content is now live.
C17_Witness ==
    /\ last.op = "restoreSnapshotIndex" /\ last.msg = MsgRestored
    /\ last.arg = 0
    /\ last.prev # Null /\ last.prev # story
    /\ Len(snapshots) = MAX_SNAPSHOTS
    /\ snapshots[1].ts = 2
    /\ story = 2
    /\ Newest(snapshots).data = last.prev

\* the operations that run autosaveTick
TickOps == {"periodicTick", "timeoutTick", "saveNow"}

\* C18: the first autosave tick after an undo(), redo() or
\* restoreExplicit() that restored a snapshot, with no graph mutation in
\* between, is a no-op: it appends no snapshot, refreshes no timestamp and
\* leaves redoStack unchanged, because the restore set the baseline hash to
\* the hash of the restored content.
C18_TickAfterRestore ==
    [][ (last.msg \in {MsgUndo, MsgRedo, MsgRestored} /\ last'.op \in TickOps) =>
            /\ snapshots' = snapshots
            /\ lastSaved' = lastSaved
            /\ redoStack' = redoStack
            /\ undoStack' = undoStack
            /\ lastHash' = lastHash ]_vars

\* C18 witness: an undo restored a story that the baseline did not hold
\* before, and the Save button's tick right after it saved nothing.
C18_Witness ==
    /\ steps = 2
    /\ last.op = "saveNow" /\ last.arg = Null
    /\ sinceUndo = "undone"
    /\ story # Null
    /\ lastHash = safeStringify(story)
    /\ Len(redoStack) = 1
    /\ undoStack = << >>
    /\ Newest(snapshots).data # story

\* C19: an autosave tick that reads a graph whose content hash equals the
\* baseline recorded at the previous tick changes nothing: the log (entries
\* and timestamps), the last-saved marker, the baseline, undoStack and
\* redoStack are unchanged.
C19_UnchangedTick ==
    [][ (last'.op \in TickOps /\ safeStringify(story) = lastHash) =>
            /\ snapshots' = snapshots
            /\ lastSaved' = lastSaved
            /\ lastHash' = lastHash
            /\ undoStack' = undoStack
            /\ redoStack' = redoStack
            /\ story' = story ]_vars

\* C19 witness: the loop was started, its first tick saved the live story
\* and the periodic tick after it found the story unchanged.
C19_Witness ==
    /\ steps = 3
    /\ last.op = "periodicTick" /\ last.arg = Null
    /\ story # Null
    /\ lastHash = safeStringify(story)
    /\ Len(undoStack) = 1
    /\ lastSaved < now

\* C20: an autosave tick that reads a non-null graph whose content hash
\* differs from the baseline calls append with that graph and records the
\* new hash as baseline: after the tick the newest log entry has the content
\* of the live graph and the baseline equals the live graph's hash.
C20_ChangedTick ==
    [][ (last'.op \in TickOps /\ story # Null
            /\ safeStringify(story) # lastHash) =>
            /\ story' = story
            /\ snapshots' = pushSnapshot(snapshots, story, now').snaps
            /\ Len(snapshots') > 0
            /\ Newest(snapshots').data = story'
            /\ Newest(snapshots').ts = now'
            /\ lastHash' = safeStringify(story') ]_vars

\* C20 witness: the second changed tick of a session: the story was saved,
\* edited, and the periodic tick has just saved the edited story.
C20_Witness ==
    /\ steps = 4
    /\ last.op = "periodicTick" /\ last.arg = story
    /\ story # Null
    /\ lastHash = safeStringify(story)
    /\ Len(undoStack) = 2
    /\ Newest(snapshots).data = story
    /\ Newest(snapshots).ts = now

\* ------------------------------------------------ claims: the autosave loop

\* C21: while the autosave loop is running and the live graph is readable,
\* after every completed tick the Snapshot Log contains an entry whose
\* content equals the live graph, in every reachable state, including after
\* clear(), after deleteAt() of the newest entry and after a restore.
C21_TickKeepsLiveInLog ==
    [][ (last'.op \in TickOps /\ autosaveTimer # Null /\ story # Null) =>
            \E i \in 1..Len(snapshots') : snapshots'[i].data = story' ]_vars

\* C22: after stop() returns, no autosave tick runs until start() is called
\* again, including when stop() is called shortly after start() while the
\* forced initial tick is still pending.
C22_NoTickAfterStop ==
    [][ (autosaveTimer = Null) =>
            last'.op \notin {"periodicTick", "timeoutTick"} ]_vars

\* C23: after any sequence of start() and stop() calls at most one periodic
\* timer is active: calling start() on a running loop replaces the existing
\* timer, calling stop() leaves none active, and stop() on a stopped loop is
\* a no-op.
C23_OneTimer ==
    /\ [](/\ Cardinality(intervals) <= 1
          /\ intervals = IF autosaveTimer = Null THEN {} ELSE {autosaveTimer})
    /\ [][ /\ (last'.op = "startAutosave") =>
                (Cardinality(intervals') = 1 /\ intervals' \cap intervals = {})
           /\ (last'.op = "stopAutosave") =>
                (intervals' = {} /\ autosaveTimer' = Null)
           /\ (last'.op = "stopAutosave" /\ autosaveTimer = Null) =>
                UNCHANGED <<story, snapshots, lastSaved, lastHash, undoStack,
                            redoStack, autosaveTimer, intervals, timeouts>>
       ]_vars

\* C23 witness: start() was called on a running loop and then stop(): the
\* second timer replaced the first and none is left.
C23_Witness ==
    /\ steps = 3
    /\ last.op = "stopAutosave"
    /\ timeouts = 2
    /\ intervals = {}
    /\ autosaveTimer = Null

\* C27: a tick for which readCurrentGraph returns null is skipped without
\* failing: the log, the last-saved marker, the baseline hash and both
\* stacks are unchanged.
C27_NullTickSkipped ==
    [][ (last'.op \in TickOps /\ story = Null) =>
            /\ last'.msg \in {"", MsgSaved}
            /\ snapshots' = snapshots
            /\ lastSaved' = lastSaved
            /\ lastHash' = lastHash
            /\ undoStack' = undoStack
            /\ redoStack' = redoStack ]_vars

\* C27 witness: the loop was started with no story exposed and its initial
\* tick has run without saving anything.
C27_Witness ==
    /\ steps = 2
    /\ last.op = "timeoutTick" /\ last.arg = Null
    /\ story = Null
    /\ lastHash = << >>
    /\ Len(snapshots) = 2
    /\ lastSaved = 2

\* C24: after start(), if the loop is not stopped, a tick runs before the
\* first periodic tick (no periodic tick runs while a forced initial tick is
\* pending), so that a readable live graph is in the log once that forced
\* tick has run.
C24_InitialTickCaptures ==
    [][ /\ (last'.op = "periodicTick") => (timeouts = 0 /\ autosaveTimer # Null)
        /\ (last'.op = "timeoutTick" /\ autosaveTimer # Null /\ story # Null) =>
                \E i \in 1..Len(snapshots') : snapshots'[i].data = story'
      ]_vars

\* the order alone: a periodic tick runs only on a started loop whose forced
\* initial ticks have all run
InitialTickFirst ==
    [][ (last'.op = "periodicTick") => (timeouts = 0 /\ autosaveTimer # Null)
      ]_vars

\* ------------------------------------------------- claims: missing targets

\* the scene and choice operations C30 lists
SceneOps ==
    {"updateSceneTitle", "addChoice", "updateChoiceTarget", "deleteChoice",
     "deleteScene"}

ChoiceOps == {"updateChoiceTarget", "deleteChoice"}

\* the selected scene is in the graph and has no choice of this id
LacksChoice(d, sel, choiceId) ==
    /\ HasScene(d, sel)
    /\ \A j \in 1..Len(d.scenes[SceneAt(d.scenes, sel)].choices) :
            d.scenes[SceneAt(d.scenes, sel)].choices[j].id # choiceId

\* C30: every scene and choice operation (update scene fields, addChoice,
\* updateChoice, deleteChoice, deleteScene) invoked when the referenced scene
\* id is null or not in the graph, or with a choice id the scene does not
\* contain, is a no-op: it raises nothing and leaves the graph content
\* unchanged.
C30_NotFoundNoOp ==
    [][ (/\ last'.op \in SceneOps
         /\ \/ selectedSceneId = Null
            \/ ~HasScene(data, selectedSceneId)
            \/ /\ last'.op \in ChoiceOps
               /\ LacksChoice(data, selectedSceneId, last'.arg)) =>
            /\ last'.msg = ""
            /\ data' = data
            /\ selectedSceneId' = selectedSceneId ]_vars

\* C30 witness: an imported scene stored under key 1 carries the id 2; it
\* was clicked, so that the selection names no scene of the graph, and
\* deleteChoice was then called for the choice the scene has: the graph
\* still has the scene and its choice.
C30_Witness ==
    /\ steps = 3
    /\ last = Done("deleteChoice", 1, "")
    /\ selectedSceneId = 2
    /\ Ids(data.scenes) = {1}
    /\ Len(data.scenes[1].choices) = 1

\* C30, a choice that is not there: deleteChoice for an id the selected
\* scene lacks has left the scene's two choices alone
DeleteUnknownChoice ==
    /\ last = Done("deleteChoice", 3, "")
    /\ HasScene(data, selectedSceneId)
    /\ Len(data.scenes[SceneAt(data.scenes, selectedSceneId)].choices) = 2
    /\ LacksChoice(data, selectedSceneId, 3)

\* ------------------------------------------------- the history list

\* the rows whose buttons are pressed: the oldest entry and the two newest,
\* none once the modal is hidden
Rows(shown) ==
    IF shown.hidden THEN {}
    ELSE {idx \in IdxInputs(Len(shown.rows)) : HasEntry(shown.rows, idx)}

\* the History button: renderHistoryModal(), then the modal is shown
openHistory ==
    /\ StepA
    /\ listing' = [listing EXCEPT !.rows = renderHistoryModal(snapshots)]
    /\ last' = Did("openHistory", Null, "", Null, Null)
    /\ UNCHANGED <<story, snapshots, lastSaved, lastHash, undoStack, redoStack,
                   autosaveTimer, intervals, timeouts, sinceUndo>>
    /\ UNCHANGED <<editorVars, pathVars, storage, host>>

\* a row's Restore button: restoreSnapshotIndex(Number(dataset.idx)), then
\* #sf-history-modal is hidden, which nothing undoes
restoreListed ==
    /\ StepA
    /\ \E idx \in Rows(listing) : Restore("restoreListed", idx)
    /\ listing' = [listing EXCEPT !.hidden = TRUE]

\* a row's Delete button: deleteSnapshotIndex(Number(dataset.idx));
\* renderHistoryModal()
deleteListed ==
    /\ StepA
    /\ \E idx \in Rows(listing) : Delete("deleteListed", idx)
    /\ listing' = [listing EXCEPT !.rows = renderHistoryModal(snapshots')]

\* a session whose loop attachLifecycle started and whose initial tick has
\* run: the live story, if there is one, is the newest entry of the log
InitHistory ==
    /\ data = EmptyData
    /\ selectedSceneId = Null
    /\ storedData = << >>
    /\ imported = FALSE
    /\ reading = << >>
    /\ steps = 0
    /\ last = Done("init", 0, "")
    /\ pc = "idle" /\ frames = << >> /\ paths = << >>
    /\ analytics = NoStats
    /\ story \in {Null} \cup Contents
    /\ \E n \in StoredLengths :
        LET r == pushSnapshot(StoredLog(n), story, n + 1) IN
        /\ now = n + 1
        /\ IF story = Null
           THEN /\ snapshots = StoredLog(n)
                /\ lastSaved = n
                /\ lastHash = << >>
                /\ undoStack = << >>
           ELSE /\ snapshots = r.snaps
                /\ lastSaved = n + 1
                /\ lastHash = safeStringify(story)
                /\ undoStack = << r.idx >>
    /\ redoStack = << >>
    /\ autosaveTimer = 1
    /\ intervals = {1}
    /\ timeouts = 0
    /\ listing = [rows |-> << >>, hidden |-> FALSE]
    /\ storage = Healthy
    /\ host = Page
    /\ sinceUndo = "none"

\* the history list in use while the loop runs, the author edits and undoes
\* (Ctrl+Z is handled on window) and other callers append and delete
NextHistory ==
    \/ openHistory
    \/ restoreListed
    \/ deleteListed
    \/ clearHistory
    \/ mutate
    \/ periodicTick
    \/ handleUndo
    \/ pushSnapshotCall
    \/ deleteSnapshotIndex

SpecHistory == InitHistory /\ [][NextHistory]_vars

\* C25: a restore or delete chosen from a history listing acts on the
\* snapshot that the listing showed for that entry, also when appends,
\* evictions or deletions changed the log between the moment the listing was
\* produced and the moment the action runs; it never restores or deletes a
\* different snapshot: the content restored, and the content of the entry
\* removed, is the content the listing showed in that row.
C25_ListedEntryActedOn ==
    [][ /\ (last'.op = "restoreListed" /\ last'.msg = MsgRestored) =>
                story' = EntryAt(listing.rows, last'.arg).data
        /\ (last'.op = "deleteListed" /\ Len(snapshots') < Len(snapshots)) =>
                \E k \in 0..(Len(snapshots) - 1) :
                    /\ snapshots' = Splice(snapshots, k)
                    /\ EntryAt(snapshots, k).data
                            = EntryAt(listing.rows, last'.arg).data
      ]_vars

\* ------------------------------------------------- writing the live story

\* fireAppUpdate(): the storyforge:restored event and the rendering hooks
fireAppUpdate(h) == [h EXCEPT !.fired = @ + 1]

\* writeStory(state) in page h: the page it leaves and the value it returns
writeStoryIn(h, state) ==
    IF h.setStory = "works"
    THEN [host |-> [h EXCEPT !.held = state], ret |-> TRUE]
    ELSE IF h.story # Undefined
    THEN [host |-> fireAppUpdate([h EXCEPT !.story = state]), ret |-> TRUE]
    ELSE IF h.storyData # Undefined
    THEN [host |-> fireAppUpdate([h EXCEPT !.storyData = state]), ret |-> TRUE]
    ELSE IF h.currentStory # Undefined
    THEN [host |-> fireAppUpdate([h EXCEPT !.currentStory = state]),
          ret |-> TRUE]
    ELSE IF h.board # Undefined
    THEN [host |-> fireAppUpdate([h EXCEPT !.board = state]), ret |-> TRUE]
    ELSE [host |-> h, ret |-> FALSE]

\* a call of writeStory(state), as restore, undo and redo make it
writeStoryCall ==
    /\ StepA
    /\ \E state \in Contents :
        LET w == writeStoryIn(host, state) IN
        /\ host' = w.host
        /\ last' = Did("writeStory", state, "", w.ret, Null)
    /\ UNCHANGED <<story, snapshots, lastSaved, lastHash, undoStack, redoStack,
                   autosaveTimer, intervals, timeouts, sinceUndo>>
    /\ UNCHANGED <<editorVars, pathVars, listing, storage>>

\* the pages autosave.js can be loaded into: window.setStory absent, working
\* or throwing; window.story, window.storyData, window.currentStory each
\* undefined or null so far; the #board element absent or without a story
InitWrite ==
    /\ data = EmptyData
    /\ selectedSceneId = Null
    /\ storedData = << >>
    /\ imported = FALSE
    /\ reading = << >>
    /\ steps = 0
    /\ last = Done("init", 0, "")
    /\ pc = "idle" /\ frames = << >> /\ paths = << >>
    /\ analytics = NoStats
    /\ story = Null
    /\ snapshots = << >>
    /\ lastSaved = Null
    /\ lastHash = << >>
    /\ undoStack = << >>
    /\ redoStack = << >>
    /\ autosaveTimer = Null
    /\ intervals = {}
    /\ timeouts = 0
    /\ now = 0
    /\ listing = [rows |-> << >>, hidden |-> FALSE]
    /\ sinceUndo = "none"
    /\ storage = Healthy
    /\ \E setter \in {"none", "works", "throws"} :
       \E a \in {Undefined, Null}, b \in {Undefined, Null},
          c \in {Undefined, Null}, d \in {Undefined, Null} :
            host = [setStory |-> setter,
                    held |-> IF setter = "works" THEN Null ELSE Undefined,
                    story |-> a, storyData |-> b, currentStory |-> c,
                    board |-> d, fired |-> 0]

NextWrite == writeStoryCall

SpecWrite == InitWrite /\ [][NextWrite]_vars

\* the places of the page that hold the live story
Live(h) == <<h.held, h.story, h.storyData, h.currentStory, h.board>>

\* C26: every writeGraph call that returns true has fired the
\* renderer-notification signal before returning, on every branch by which
\* the write can succeed (including the collaborator-provided setter); a
\* call that returns false has not changed the live graph.
C26_WriteNotifies ==
    [][ (last'.op = "writeStory") =>
            IF last'.ret
            THEN host'.fired = host.fired + 1
            ELSE Live(host') = Live(host) ]_vars

\* ------------------------------------------------- storage faults

\* what a session can find under the snapshot key instead of a log: the
\* JSON text null, a text that does not parse, a getItem that throws
CorruptPayloads == {"null", "unparseable", "unreadable"}

\* the ways setItem fails: "full" refuses the log and takes the short
\* last-saved marker, "denied" refuses every write
FailingQuotas == {"full", "denied"}

\* a session as in InitAutosave, with storage at fault: a corrupt payload,
\* or a sound log of two entries that can no longer be written
InitStorage ==
    /\ data = EmptyData
    /\ selectedSceneId = Null
    /\ storedData = << >>
    /\ imported = FALSE
    /\ reading = << >>
    /\ steps = 0
    /\ last = Done("init", 0, "")
    /\ pc = "idle" /\ frames = << >> /\ paths = << >>
    /\ analytics = NoStats
    /\ story \in {Null} \cup Contents
    /\ \/ /\ storage \in [payload : CorruptPayloads, quota : {"ok"}]
          /\ snapshots = << >>
          /\ lastSaved = Null
          /\ now = 0
       \/ /\ storage \in [payload : {"array"}, quota : FailingQuotas]
          /\ snapshots = StoredLog(2)
          /\ lastSaved = 2
          /\ now = 2
    /\ lastHash = << >>
    /\ undoStack = << >>
    /\ redoStack = << >>
    /\ autosaveTimer = Null
    /\ intervals = {}
    /\ timeouts = 0
    /\ listing = [rows |-> << >>, hidden |-> FALSE]
    /\ sinceUndo = "none"
    /\ host = Page

SpecStorage == InitStorage /\ [][NextAutosave]_vars

\* the operations that read the stored log
LogOps ==
    TickOps \cup {"handleUndo", "handleRedo", "restoreSnapshotIndex",
                  "deleteSnapshotIndex"}

\* C28: when reading the stored log fails or the stored payload is corrupt,
\* the store behaves as an empty log: list() yields no entries and a
\* following tick, undo, redo, restoreExplicit or deleteAt completes without
\* raising an error.
C28_CorruptReadsEmpty ==
    [][ (storage.payload \in CorruptPayloads /\ last'.op \in LogOps) =>
            /\ ~LoadsNull(storage)
            /\ loadSnapshots = << >>
            /\ last'.msg \notin {MsgTypeError, MsgQuota} ]_vars

\* the operations that append to the log
AppendOps ==
    TickOps \cup {"handleUndo", "handleRedo", "restoreSnapshotIndex"}

\* C29: when a durable-storage write fails during append (called from a
\* tick, undo, redo or restoreExplicit), the failure does not propagate out
\* of the calling operation and the write is simply dropped: the operation
\* raises nothing, a tick leaves the live graph as it was and records the
\* index on the undo stack, an undo or a restore that found its snapshot
\* writes it to the live graph.
C29_WriteFailureDropped ==
    [][ (storage.quota \in FailingQuotas /\ last'.op \in AppendOps) =>
            /\ last'.msg \notin {MsgTypeError, MsgQuota}
            /\ last'.op \in TickOps => story' = story
            /\ (last'.op \in TickOps /\ lastHash' # lastHash) =>
                    Len(undoStack') = Len(undoStack) + 1 ]_vars

\* ------------------------------------------------------ scene identity

\* the operations that replace the whole graph by another one
ReplaceOps == {"importJSON", "loadSampleStory"}

TwoCycle(d) ==
    /\ Len(d.scenes) = 2
    /\ StartScene(d) = 1
    /\ d.scenes[1].choices = << [id |-> 1, target |-> 2] >>
    /\ d.scenes[2].choices = << [id |-> 1, target |-> 1] >>

\* the call on top of the stack is about to run its body on a scene of the
\* graph that the branch has already visited
BacksOffCycle ==
    /\ pc = "running" /\ frames # << >> /\ Top.k = 0
    /\ HasScene(data, Top.sceneId)
    /\ AlreadyVisited(Top.visited, Top.sceneId)

\* the call on top of the stack is about to run its body on a scene without
\* choices that the branch has not visited
ReachesTerminal ==
    /\ pc = "running" /\ frames # << >> /\ Top.k = 0
    /\ HasScene(data, Top.sceneId)
    /\ ~AlreadyVisited(Top.visited, Top.sceneId)
    /\ IsEnding(data.scenes[SceneAt(data.scenes, Top.sceneId)])

\* C32: a branch of the path analysis is recorded as a completed path both
\* when it reaches a scene with no choices and when it backs off a cycle;
\* for the 2-cycle 1 -> 2 -> 1 with start 1 the finished analysis has
\* recorded at least one path.
C32_BranchesRecorded ==
    /\ [][ (ReachesTerminal \/ BacksOffCycle) =>
                Len(paths') = Len(paths) + 1 ]_vars
    /\ []((pc = "done" /\ TwoCycle(data)) => Len(paths) >= 1)

\* ------------------------------------------------------------- analytics

\* A JavaScript number that need not be an integer is a pair <<n, d>>: the
\* quotient n / d for d > 0, and NaN for 0 / 0.
NaN == <<0, 0>>

Zero == <<0, 1>>

\* a / b for a >= 0 and b >= 0
Quot(a, b) == IF b = 0 /\ a > 0 THEN <<1, 0>> ELSE <<a, b>>

KeepNaN(x) == x

\* x || 0: NaN and 0 are falsy
OrZero(x) == IF x[1] = 0 THEN Zero ELSE x

\* Math.round(x), halves upwards; NaN and Infinity stay what they are
Round(x) ==
    IF x[2] = 0 THEN x ELSE <<(2 * x[1] + x[2]) \div (2 * x[2]), 1>>

RECURSIVE SumLen(_)
\* reduce((sum, s) => sum + s.length, 0) over a list of lists
SumLen(lists) ==
    IF lists = << >> THEN 0 ELSE Len(Head(lists)) + SumLen(Tail(lists))

ChoiceLists(scenes) == [i \in 1..Len(scenes) |-> scenes[i].choices]

\* Math.max(...scenes.map(s => s.choices.length), 0)
MaxChoices(scenes) ==
    LET lens == {Len(scenes[i].choices) : i \in 1..Len(scenes)} \cup {0}
    IN  CHOOSE m \in lens : \A l \in lens : l <= m

\* totalChoices / totalScenes || 0
AvgChoices(scenes) ==
    OrZero(Quot(SumLen(ChoiceLists(scenes)), Len(scenes)))

\* Math.round((avgChoices / 3) * 100)
ComplexityScore(avgChoices) ==
    Round(<<avgChoices[1] * 100, avgChoices[2] * 3>>)

\* paths.length > 0 ? sum of the path lengths / paths.length : 0
AvgPathLength(ps) ==
    IF Len(ps) > 0 THEN Quot(SumLen(ps), Len(ps)) ELSE Zero

\* generateAnalytics(), up to the call of findAllPaths: the story statistics
\* and the complexity figures
generateAnalytics ==
    /\ pc = "idle" /\ analytics = NoStats
    /\ ~data.scenesNull
    /\ analytics' =
         [shown |-> "stats",
          totalScenes |-> Len(data.scenes),
          totalChoices |-> SumLen(ChoiceLists(data.scenes)),
          maxChoices |-> MaxChoices(data.scenes),
          avgChoices |-> AvgChoices(data.scenes),
          complexityScore |-> ComplexityScore(AvgChoices(data.scenes))]
    /\ UNCHANGED <<pc, frames, paths, editorVars, autosaveVars, steps, last>>

\* generateAnalytics(), after findAllPaths has returned: the path analysis
pathAnalysis ==
    /\ pc = "done" /\ analytics.shown = "stats"
    /\ analytics' =
         [shown |-> "all",
          totalScenes |-> analytics.totalScenes,
          totalChoices |-> analytics.totalChoices,
          maxChoices |-> analytics.maxChoices,
          avgChoices |-> analytics.avgChoices,
          complexityScore |-> analytics.complexityScore,
          pathCount |-> Len(paths),
          avgPathLength |-> AvgPathLength(paths)]
    /\ UNCHANGED <<pc, frames, paths, editorVars, autosaveVars, steps, last>>

\* const paths = findAllPaths(): the call generateAnalytics makes
analyticsPaths == analytics.shown = "stats" /\ NextPaths

NextAnalytics ==
    \/ generateAnalytics
    \/ analyticsPaths
    \/ pathAnalysis

SpecAnalytics == InitPaths /\ [][NextAnalytics]_vars

\* C33: on the empty graph the analytics yield an empty path set and every
\* derived figure is zero: the path count, the average path length, the
\* maximum and the average number of choices per scene and the complexity
\* score.
C33_EmptyGraphAllZero ==
    (analytics.shown = "all" /\ Len(data.scenes) = 0) =>
        /\ paths = << >>
        /\ analytics.pathCount = 0
        /\ analytics.avgPathLength = Zero
        /\ analytics.maxChoices = 0
        /\ analytics.avgChoices = Zero
        /\ analytics.complexityScore = Zero

C33_Witness ==
    /\ analytics.shown = "all"
    /\ Len(data.scenes) = 0
    /\ data.startSceneId # Null
    /\ pc = "done"

\* ------------------------------------------------- snapshots are immutable

\* the operations that take entries out of the log on request
RemovalOps == {"deleteSnapshotIndex", "clearHistory"}

\* the entries of old that new still holds are as they were: k entries left
\* at the front, the others follow in their order, unchanged but for the
\* timestamp of the newest of old
KeptAsCaptured(old, new, k) ==
    /\ Len(new) >= Len(old) - k
    /\ (Len(old) > k) =>
        /\ SubSeq(new, 1, Len(old) - k - 1) = SubSeq(old, k + 1, Len(old) - 1)
        /\ new[Len(old) - k].data = old[Len(old)].data
        /\ new[Len(old) - k].title = old[Len(old)].title

\* C34: the content of an entry of the log never changes. A step that does
\* not delete or clear leaves every entry it keeps with the content it had
\* (at most the oldest entry goes, on a full log, and only the newest
\* entry's timestamp may change); deleteAt only takes one entry out; an
\* edit of the live story, also of a restored one, leaves the log as it is.
C34_SnapshotsImmutable ==
    [][ /\ (last'.op \notin RemovalOps) =>
                \/ KeptAsCaptured(snapshots, snapshots', 0)
                \/ /\ Len(snapshots) = MAX_SNAPSHOTS
                   /\ Len(snapshots') = MAX_SNAPSHOTS
                   /\ KeptAsCaptured(snapshots, snapshots', 1)
        /\ (last'.op = "deleteSnapshotIndex") =>
                \/ snapshots' = snapshots
                \/ \E idx \in 0..(Len(snapshots) - 1) :
                        snapshots' = Splice(snapshots, idx)
        /\ (last'.op = "mutate") => snapshots' = snapshots ]_vars

C34_Witness ==
    /\ last.op = "mutate"
    /\ redoStack # << >>
    /\ undoStack # << >>
    /\ Len(snapshots) = MAX_SNAPSHOTS
    /\ \A i \in 1..Len(snapshots) : snapshots[i].data # Null
    /\ steps = 4

\* ---------------------------------------------------------- display title

\* state.storyMetadata.title: the title a story carries, whatever the rest
\* of its content
MetadataTitle(state) == IF state = Null THEN Null ELSE "My Interactive Story"

\* C35: the display title of a snapshot equals the title the story had, in
\* its story-level metadata, when it was captured: the entry an operation
\* has just written carries the title of its content.
C35_TitleAtCapture ==
    [][ (/\ last'.op \notin RemovalOps
         /\ snapshots' # snapshots
         /\ snapshots' # << >>
         /\ Newest(snapshots').data # Null) =>
            /\ Newest(snapshots').title # Null
            /\ Newest(snapshots').title =
                    MetadataTitle(Newest(snapshots').data) ]_vars

\* ------------------------------------------------------ leaving the log

\* the operations that call pushSnapshot
PushOps == AppendOps \cup {"pushSnapshot"}

\* C36: entries leave the log only through the eviction of the oldest entry
\* inside an append to a full log, through deleteAt and through clear. Any
\* other step keeps all entries in their order; an appending step on a full
\* log drops the oldest entry and nothing else; start and stop leave the log
\* exactly as it was.
C36_OnlyEvictionDeleteClear ==
    [][ /\ (Len(snapshots') < Len(snapshots)) => last'.op \in RemovalOps
        /\ (last'.op \notin RemovalOps) =>
                \/ KeptAsCaptured(snapshots, snapshots', 0)
                \/ /\ last'.op \in PushOps
                   /\ Len(snapshots) = MAX_SNAPSHOTS
                   /\ snapshots' = Append(Tail(snapshots), Newest(snapshots'))
                   /\ Newest(snapshots').ts = now'
        /\ (last'.op \in {"startAutosave", "stopAutosave"}) =>
                snapshots' = snapshots ]_vars

C36_Witness ==
    /\ last.op = "stopAutosave"
    /\ Len(snapshots) = MAX_SNAPSHOTS
    /\ snapshots[1].ts = 2

\* ---------------------------------------------------- adjacent duplicates

\* C37: in every reachable state no two adjacent entries of the log have
\* identical content.
C37_NoAdjacentDuplicates ==
    \A i \in 1..(Len(snapshots) - 1) :
        safeStringify(snapshots[i].data) # safeStringify(snapshots[i + 1].data)

\* ------------------------------------------------------------ undo twice

\* C38: after a successful undo, a second undo with no edit of the story in
\* between goes further back: it reports that there is nothing (earlier) to
\* undo, or it restores an entry older than the one the first undo restored,
\* and it never writes back the content that was live before the first undo.
C38_SecondUndoGoesBack ==
    [][ (/\ last.op = "handleUndo" /\ last.msg = MsgUndo
         /\ last'.op = "handleUndo") =>
            \/ last'.msg \in {MsgNothingToUndo, MsgNoEarlier}
            \/ /\ last'.msg = MsgUndo
               /\ last'.arg < last.arg
               /\ story' # last.prev ]_vars

\* ------------------------------------------------ identities on redoStack

\* the identity at place k of redoStack designates an entry of the log
Designates(stack, snaps, k) == HasEntry(snaps, stack[k])

\* C39: in every reachable state each identity on redoStack designates an
\* entry of the log, with the content that was live when the identity was
\* pushed: an identity a step pushes designates an entry with the content
\* that was live before the step, an identity a step keeps designates the
\* same content after the step as before it, and a redo with a non-empty
\* redoStack does not fail.
C39_RedoIdentitiesValid ==
    /\ [](\A k \in 1..Len(redoStack) : Designates(redoStack, snapshots, k))
    /\ [][ \A k \in 1..Len(redoStack') :
            /\ Designates(redoStack', snapshots', k)
            /\ IF k <= Len(redoStack)
               THEN /\ Designates(redoStack, snapshots, k)
                    /\ EntryAt(snapshots', redoStack'[k]).data
                         = EntryAt(snapshots, redoStack[k]).data
               ELSE EntryAt(snapshots', redoStack'[k]).data = story ]_vars
    /\ [][ (last'.op = "handleRedo" /\ redoStack # << >>) =>
                last'.msg = MsgRedo ]_vars

\* ------------------------------------------------------------ image upload

\* FileReader loads under way at a time
MaxReads == 2

\* event.target.result: the data URL of the file read (images are numbered,
\* Null is no image)
ImageData == 1

\* handleImageUpload(e), with a file chosen: start reading the file
handleImageUpload ==
    /\ Step
    /\ UNCHANGED <<pathVars, autosaveVars>>
    /\ Len(reading) < MaxReads
    /\ IF SceneMissing(data, selectedSceneId)
       THEN /\ Returns("handleImageUpload", selectedSceneId)
            /\ UNCHANGED reading
       ELSE /\ reading' = Append(reading, [startedOn |-> selectedSceneId])
            /\ last' = Done("handleImageUpload", selectedSceneId, "")
            /\ UNCHANGED <<data, storedData>>
    /\ UNCHANGED <<selectedSceneId, imported>>

\* reader.onload: a file has been read. The handler looks up the scene that
\* is selected now; its argument in last is the scene the load was started
\* on, its result the scene the image was written to.
imageLoaded ==
    /\ Step
    /\ UNCHANGED <<pathVars, autosaveVars>>
    /\ \E r \in 1..Len(reading) :
        /\ reading' = [i \in 1..(Len(reading) - 1) |->
                            IF i < r THEN reading[i] ELSE reading[i + 1]]
        /\ IF SceneMissing(data, selectedSceneId)
           THEN \* scene is undefined: scene.image = ... throws
                /\ last' = Did("imageLoaded", reading[r].startedOn,
                               MsgTypeError, Null, Null)
                /\ UNCHANGED <<data, storedData>>
           ELSE /\ data' = [data EXCEPT
                    !.scenes[SceneAt(data.scenes, selectedSceneId)].image =
                        ImageData]
                /\ storedData' = saveToLocal(data')
                /\ last' = Did("imageLoaded", reading[r].startedOn, "",
                               selectedSceneId, Null)
    /\ UNCHANGED <<selectedSceneId, imported>>

\* the editor with the sample story loaded and nothing selected
InitUpload ==
    /\ AutosaveIdle
    /\ data = SampleStory
    /\ selectedSceneId = Null
    /\ storedData = saveToLocal(SampleStory)
    /\ imported = FALSE
    /\ reading = << >>
    /\ steps = 0
    /\ last = Done("init", 0, "")
    /\ pc = "idle" /\ frames = << >> /\ paths = << >>
    /\ analytics = NoStats

NextUpload ==
    \/ handleImageUpload
    \/ imageLoaded
    \/ selectScene
    \/ deleteScene

SpecUpload == InitUpload /\ [][NextUpload]_vars

\* C40: a finished image upload raises nothing; it writes the image to the
\* scene that was selected when the upload was started, changes nothing when
\* that scene is no longer selected or no longer in the graph, and never
\* changes another scene.
C40_UploadLandsOnItsScene ==
    [][ (last'.op = "imageLoaded") =>
            /\ last'.msg = ""
            /\ (selectedSceneId # last'.arg \/ ~HasScene(data, last'.arg)) =>
                    data' = data
            /\ (selectedSceneId = last'.arg /\ HasScene(data, last'.arg)) =>
                    data'.scenes[SceneAt(data.scenes, last'.arg)].image
                        = ImageData
            /\ \A i \in 1..Len(data.scenes) :
                    (data.scenes[i].id # last'.arg) =>
                        data'.scenes[i] = data.scenes[i] ]_vars

====
